---- MODULE Spec2Model ----
(***************************************************************************)
(* Model of the DCCLight1616 mobile decoder firmware (AP_DCC_library       *)
(* variant, src/src/main.cpp lines 1-483): the CV cache and its EEPROM     *)
(* mirror, the function-state and light-gate caches, the CV access handler *)
(* cvOperation(), setup() and loop().                                      *)
(*                                                                         *)
(* The objects dcc, locoCmd and cvCmd belong to AP_DCC_library.  The model *)
(* keeps the fields the firmware reads and lets the library set them when  *)
(* dcc.input() reports the matching command.                               *)
(*                                                                         *)
(* Specifications: Spec (one power-up, bus events of every kind),          *)
(* SpecPower (Spec with a power cycle), SpecGate (a configured channel      *)
(* under speed and function events), SpecBits (bit write then bit verify), *)
(* SpecSteady and SpecFlash (the renderer over brightness and time).       *)
(***************************************************************************)
EXTENDS Integers, FiniteSets, Sequences, TLC

\* ------------------------------------------------------------------ bounds
\* Number of bus events (dcc.input() returning true) one behaviour processes.
MaxEvents == 2

\* ------------------------------------------------------- program constants
numberOfLights == 4
NumberOfCvsInCache == 100
numberOfFcts == 29

CV1PrimaryAddress == 1
CV7ManufacturerVersionNumber == 7
CV8ManufacturerIDNumber == 8
CV50Light0Brightness == 50
CV51Light0ControlFunction == 51
CV52Light0DirectionSensitivity == 52
CV53Light0SpeedSensitivity == 53
CV54Light0Effect == 54

strobeFlashPeriod == 150
rotatingFlashPeriod == 600
\* rotatingFlashPeriod of the earlier build of the firmware.
earlierRotatingFlashPeriod == 400

OPModeServiceMode == 1
OPModeProgramOnMain == 2

Byte == 0..255
CvIndex == 0..(NumberOfCvsInCache - 1)
Lights == 0..(numberOfLights - 1)
Fcts == 0..(numberOfFcts - 1)

\* Bit p of the byte x (the C expression (x >> p) & 1).
BitOf(x, p) == (x \div (2 ^ p)) % 2

\* ------------------------------------------------------------- gamma table
\* A table of 256 entries from 0 to 255 that is not monotone.
gamma_Sawtooth == [i \in 1..256 |-> IF i = 256 THEN 255 ELSE ((i - 1) * 3) % 256]

gamma ==
  << 0, 0, 0, 0, 0, 0, 0, 0, 0, 0, 0, 0, 0, 0, 0, 0,
     0, 0, 0, 0, 0, 0, 0, 0, 0, 0, 0, 0, 1, 1, 1, 1,
     1, 1, 1, 1, 1, 1, 1, 1, 1, 2, 2, 2, 2, 2, 2, 2,
     2, 3, 3, 3, 3, 3, 3, 3, 4, 4, 4, 4, 4, 5, 5, 5,
     5, 6, 6, 6, 6, 7, 7, 7, 7, 8, 8, 8, 9, 9, 9, 10,
     10, 10, 11, 11, 11, 12, 12, 13, 13, 13, 14, 14, 15, 15, 16, 16,
     17, 17, 18, 18, 19, 19, 20, 20, 21, 21, 22, 22, 23, 24, 24, 25,
     25, 26, 27, 27, 28, 29, 29, 30, 31, 32, 32, 33, 34, 35, 35, 36,
     37, 38, 39, 39, 40, 41, 42, 43, 44, 45, 46, 47, 48, 49, 50, 50,
     51, 52, 54, 55, 56, 57, 58, 59, 60, 61, 62, 63, 64, 66, 67, 68,
     69, 70, 72, 73, 74, 75, 77, 78, 79, 81, 82, 83, 85, 86, 87, 89,
     90, 92, 93, 95, 96, 98, 99, 101, 102, 104, 105, 107, 109, 110, 112, 114,
     115, 117, 119, 120, 122, 124, 126, 127, 129, 131, 133, 135, 137, 138, 140, 142,
     144, 146, 148, 150, 152, 154, 156, 158, 160, 162, 164, 167, 169, 171, 173, 175,
     177, 180, 182, 184, 186, 189, 191, 193, 196, 198, 200, 203, 205, 208, 210, 213,
     215, 218, 220, 223, 225, 228, 231, 233, 236, 239, 241, 244, 247, 249, 252, 255 >>

\* Gamma without the table: the brightness is passed on as it is.
Gamma_Identity(x) == x

\* gamma[x] of the C table (0-based) is element x + 1 of the tuple.
Gamma(x) == gamma[x + 1]

\* ---------------------------------------------------------------- CV store
\* FactoryDefaults without the line cvsCache[CV64Light1Effect] = 2.
FactoryDefaults_Light1EffectZero ==
  [i \in CvIndex |->
     CASE i = CV1PrimaryAddress -> 3
       [] i = CV7ManufacturerVersionNumber -> 1
       [] i = CV8ManufacturerIDNumber -> 13
       [] i = 50 -> 255 [] i = 54 -> 1
       [] i = 60 -> 150 [] i = 61 -> 1
       [] i = 70 -> 150 [] i = 71 -> 2
       [] i = 80 -> 150 [] i = 81 -> 3
       [] OTHER -> 0]

\* The table resetCVsToDefault() leaves in cvsCache.
FactoryDefaults ==
  [i \in CvIndex |->
     CASE i = CV1PrimaryAddress -> 3
       [] i = CV7ManufacturerVersionNumber -> 1
       [] i = CV8ManufacturerIDNumber -> 13
       [] i = 50 -> 255 [] i = 51 -> 0 [] i = 52 -> 0 [] i = 53 -> 0 [] i = 54 -> 1
       [] i = 60 -> 150 [] i = 61 -> 1 [] i = 62 -> 0 [] i = 63 -> 0 [] i = 64 -> 2
       [] i = 70 -> 150 [] i = 71 -> 2 [] i = 72 -> 0 [] i = 73 -> 0 [] i = 74 -> 0
       [] i = 80 -> 150 [] i = 81 -> 3 [] i = 82 -> 0 [] i = 83 -> 0 [] i = 84 -> 0
       [] OTHER -> 0]

\* loadCVsFromEEPROM(): the cache after reading every byte 0..99.
loadCVsFromEEPROM(eeprom) == [i \in CvIndex |-> eeprom[i]]

\* storeCVsToEEPROM(): the EEPROM after writing every cache byte 0..99.
storeCVsToEEPROM(cache) == [i \in CvIndex |-> cache[i]]

\* resetCVsToDefault(): zero the cache, apply the table, store it all.
resetCVsToDefault == [cache |-> FactoryDefaults,
                      eeprom |-> storeCVsToEEPROM(FactoryDefaults),
                      writes |-> NumberOfCvsInCache]

\* --------------------------------------------------- function-state cache
\* updateFctsStateCache that takes F0..F4 from bits 0..4 of the F0F4 byte.
updateFctsStateCache_F0Bit0(loco) ==
  [f \in Fcts |->
     CASE f \in 0..4 -> BitOf(loco.F0F4, f) = 1
       [] f \in 5..8 -> BitOf(loco.F5F8, f - 5) = 1
       [] f \in 9..12 -> BitOf(loco.F9F12, f - 9) = 1
       [] f \in 13..20 -> BitOf(loco.F13F20, f - 13) = 1
       [] OTHER -> BitOf(loco.F21F28, f - 21) = 1]

\* updateFctsStateCache(): the 29 function states from the five group
\* bitmasks held by locoCmd.
updateFctsStateCache(loco) ==
  [f \in Fcts |->
     CASE f = 0 -> BitOf(loco.F0F4, 4) = 1
       [] f \in 1..4 -> BitOf(loco.F0F4, f - 1) = 1
       [] f \in 5..8 -> BitOf(loco.F5F8, f - 5) = 1
       [] f \in 9..12 -> BitOf(loco.F9F12, f - 9) = 1
       [] f \in 13..20 -> BitOf(loco.F13F20, f - 13) = 1
       [] OTHER -> BitOf(loco.F21F28, f - 21) = 1]

\* ------------------------------------------------------------- light gates
\* FctRead that takes every control function as switched on.
FctRead_AlwaysOn(fct, idx) == {TRUE}

\* The values the read fctStateCache[idx] can produce: the element when idx
\* is inside the array, any bool when the read is past its end.
FctRead(fct, idx) == IF idx \in Fcts THEN {fct[idx]} ELSE BOOLEAN

\* DirectionOk with the forward and reverse cases exchanged.
DirectionOk_Exchanged(cache, loco, lightNr) ==
  LET d == cache[CV52Light0DirectionSensitivity + lightNr * 10]
  IN  d = 0 \/ (d = 1 /\ ~loco.forward) \/ (d = 2 /\ loco.forward)

\* The second and third conjunct of the gate expression of one light.
DirectionOk(cache, loco, lightNr) ==
  LET d == cache[CV52Light0DirectionSensitivity + lightNr * 10]
  IN  d = 0 \/ (d = 1 /\ loco.forward) \/ (d = 2 /\ ~loco.forward)

\* SpeedOk that takes every speed sensitivity other than 0 as "only when
\* moving".
SpeedOk_UnknownAsMoving(cache, loco, lightNr) ==
  LET s == cache[CV53Light0SpeedSensitivity + lightNr * 10]
  IN  s = 0 \/ (s # 0 /\ loco.speed > 0)

\* SpeedOk whose test of the speed is locoCmd.speed >= 0.
SpeedOk_AtRest(cache, loco, lightNr) ==
  LET s == cache[CV53Light0SpeedSensitivity + lightNr * 10]
  IN  s = 0 \/ (s = 1 /\ loco.speed >= 0)

SpeedOk(cache, loco, lightNr) ==
  LET s == cache[CV53Light0SpeedSensitivity + lightNr * 10]
  IN  s = 0 \/ (s = 1 /\ loco.speed > 0)

\* The values one light's gate expression can evaluate to.
GateOutcomes(cache, fct, loco, lightNr) ==
  LET c == cache[CV51Light0ControlFunction + lightNr * 10]
  IN  IF c = 31
        THEN {DirectionOk(cache, loco, lightNr) /\ SpeedOk(cache, loco, lightNr)}
        ELSE {f /\ DirectionOk(cache, loco, lightNr) /\ SpeedOk(cache, loco, lightNr) :
                f \in FctRead(fct, c)}

\* updateLightsStateCache(): the contents lightStateCache can have afterwards.
updateLightsStateCache(cache, fct, loco) ==
  {[l \in Lights |-> CASE l = 0 -> g0 [] l = 1 -> g1 [] l = 2 -> g2 [] OTHER -> g3] :
     g0 \in GateOutcomes(cache, fct, loco, 0), g1 \in GateOutcomes(cache, fct, loco, 1),
     g2 \in GateOutcomes(cache, fct, loco, 2), g3 \in GateOutcomes(cache, fct, loco, 3)}

\* The indexes updateLightsStateCache() uses on fctStateCache (the || skips
\* the read when the control function is 31).
FctIndexesRead(cache) ==
  {cache[CV51Light0ControlFunction + l * 10] : l \in Lights} \ {31}

\* ---------------------------------------------------------------- renderer
\* What a uint8_t function returns when it reaches its end without a return
\* statement: whatever the return register holds (sampled: 0, 128, 255).
UndefinedByte == {0, 128, 255}

\* valueLight without the test of lightStateCache[lightNr].
valueLight_GateIgnored(cache, light, lightNr, t) ==
  LET off == lightNr * 10
      b == cache[CV50Light0Brightness + off]
      e == cache[CV54Light0Effect + off]
      ts == t % strobeFlashPeriod
      tr == t % rotatingFlashPeriod
  IN  CASE e = 0 -> {Gamma(b)}
        [] e = 1 -> IF ts < strobeFlashPeriod \div 12 THEN {Gamma(b)} ELSE {0}
        [] e = 2 -> IF tr < rotatingFlashPeriod \div 2
                      THEN {Gamma(((2 * b * tr) \div rotatingFlashPeriod) % 256)}
                      ELSE {Gamma(((2 * b * (rotatingFlashPeriod - tr))
                                     \div rotatingFlashPeriod) % 256)}
        [] OTHER -> UndefinedByte

\* valueLight whose strobe test is timeNow <= strobeFlashPeriod / 12.
valueLight_StrobeInclusive(cache, light, lightNr, t) ==
  LET off == lightNr * 10
      b == cache[CV50Light0Brightness + off]
      e == cache[CV54Light0Effect + off]
      ts == t % strobeFlashPeriod
      tr == t % rotatingFlashPeriod
  IN  IF light[lightNr]
        THEN CASE e = 0 -> {Gamma(b)}
               [] e = 1 -> IF ts <= strobeFlashPeriod \div 12 THEN {Gamma(b)} ELSE {0}
               [] e = 2 -> IF tr < rotatingFlashPeriod \div 2
                             THEN {Gamma(((2 * b * tr) \div rotatingFlashPeriod) % 256)}
                             ELSE {Gamma(((2 * b * (rotatingFlashPeriod - tr))
                                            \div rotatingFlashPeriod) % 256)}
               [] OTHER -> UndefinedByte
        ELSE {0}

\* valueLight whose rotating flash ramps up in both halves of the period.
valueLight_NoRampDown(cache, light, lightNr, t) ==
  LET off == lightNr * 10
      b == cache[CV50Light0Brightness + off]
      e == cache[CV54Light0Effect + off]
      ts == t % strobeFlashPeriod
      tr == t % rotatingFlashPeriod
  IN  IF light[lightNr]
        THEN CASE e = 0 -> {Gamma(b)}
               [] e = 1 -> IF ts < strobeFlashPeriod \div 12 THEN {Gamma(b)} ELSE {0}
               [] e = 2 -> IF tr < rotatingFlashPeriod \div 2
                             THEN {Gamma(((2 * b * tr) \div rotatingFlashPeriod) % 256)}
                             ELSE {Gamma(((2 * b * tr) \div rotatingFlashPeriod) % 256)}
               [] OTHER -> UndefinedByte
        ELSE {0}

\* valueLight whose rotating flash multiplies the brightness by 4 in the rising
\* half of the period.
valueLight_RisingUnscaled(cache, light, lightNr, t) ==
  LET off == lightNr * 10
      b == cache[CV50Light0Brightness + off]
      e == cache[CV54Light0Effect + off]
      ts == t % strobeFlashPeriod
      tr == t % rotatingFlashPeriod
  IN  IF light[lightNr]
        THEN CASE e = 0 -> {Gamma(b)}
               [] e = 1 -> IF ts < strobeFlashPeriod \div 12 THEN {Gamma(b)} ELSE {0}
               [] e = 2 -> IF tr < rotatingFlashPeriod \div 2
                             THEN {Gamma(((4 * b * tr) \div rotatingFlashPeriod) % 256)}
                             ELSE {Gamma(((2 * b * (rotatingFlashPeriod - tr))
                                            \div rotatingFlashPeriod) % 256)}
               [] OTHER -> UndefinedByte
        ELSE {0}

\* valueLight(lightNr) of the earlier build of the firmware: the same
\* function with the rotating period 400.
earlierValueLight(cache, light, lightNr, t) ==
  LET off == lightNr * 10
      b == cache[CV50Light0Brightness + off]
      e == cache[CV54Light0Effect + off]
      ts == t % strobeFlashPeriod
      tr == t % earlierRotatingFlashPeriod
  IN  IF light[lightNr]
        THEN CASE e = 0 -> {Gamma(b)}
               [] e = 1 -> IF ts < strobeFlashPeriod \div 12 THEN {Gamma(b)} ELSE {0}
               [] e = 2 -> IF tr < earlierRotatingFlashPeriod \div 2
                             THEN {Gamma(((2 * b * tr) \div earlierRotatingFlashPeriod)
                                           % 256)}
                             ELSE {Gamma(((2 * b * (earlierRotatingFlashPeriod - tr))
                                            \div earlierRotatingFlashPeriod) % 256)}
               [] OTHER -> UndefinedByte
        ELSE {0}

\* The values valueLight(lightNr) can return at millis() = t.  A gate that is
\* on with an effect other than 0, 1, 2 leaves the switch and reaches the end
\* of the function without a return statement.
valueLight(cache, light, lightNr, t) ==
  LET off == lightNr * 10
      b == cache[CV50Light0Brightness + off]
      e == cache[CV54Light0Effect + off]
      ts == t % strobeFlashPeriod
      tr == t % rotatingFlashPeriod
  IN  IF light[lightNr]
        THEN CASE e = 0 -> {Gamma(b)}
               [] e = 1 -> IF ts < strobeFlashPeriod \div 12 THEN {Gamma(b)} ELSE {0}
               [] e = 2 -> IF tr < rotatingFlashPeriod \div 2
                             THEN {Gamma(((2 * b * tr) \div rotatingFlashPeriod) % 256)}
                             ELSE {Gamma(((2 * b * (rotatingFlashPeriod - tr))
                                            \div rotatingFlashPeriod) % 256)}
               [] OTHER -> UndefinedByte
        ELSE {0}

\* ------------------------------------------------------- CV access handler
\* The bounds check of cvOperation(): cvCmd.number < sizeof(cvsCache).
InBounds(number) == number < NumberOfCvsInCache

\* AckIfServiceMode without the test of the mode.
AckIfServiceMode_Always(op_mode) == 1

\* dcc.sendAck() under "if (op_mode == OPModeServiceMode)": the number of
\* acknowledgement pulses sent.
AckIfServiceMode(op_mode) == IF op_mode = OPModeServiceMode THEN 1 ELSE 0

\* cvCmd.writeBit(data): data with bit cvCmd.bitposition set to cvCmd.bitvalue.
writeBit(cmd, data) ==
  data - BitOf(data, cmd.bitposition) * (2 ^ cmd.bitposition)
       + cmd.bitvalue * (2 ^ cmd.bitposition)

\* cvCmd.verifyBit(data): bit cvCmd.bitposition of data equals cvCmd.bitvalue.
verifyBit(cmd, data) == BitOf(data, cmd.bitposition) = cmd.bitvalue

\* cvVerifyByte that acknowledges without comparing.
cvVerifyByte_NoCompare(op_mode, cmd, cache, eeprom) ==
  [cache |-> cache, eeprom |-> eeprom, writes |-> 0, acks |-> AckIfServiceMode(op_mode)]

\* case CvAccess::verifyByte
cvVerifyByte(op_mode, cmd, cache, eeprom) ==
  [cache |-> cache, eeprom |-> eeprom, writes |-> 0,
   acks |-> IF cache[cmd.number] = cmd.value THEN AckIfServiceMode(op_mode) ELSE 0]

\* cvWriteByte whose CV7 branch leaves the handler before the acknowledgement.
cvWriteByte_Cv7Returns(op_mode, cmd, cache, eeprom) ==
  CASE cmd.number = CV7ManufacturerVersionNumber ->
         [cache |-> cache, eeprom |-> eeprom, writes |-> 0, acks |-> 0]
    [] cmd.number = CV8ManufacturerIDNumber ->
         IF cmd.value = 8
           THEN [cache |-> resetCVsToDefault.cache, eeprom |-> resetCVsToDefault.eeprom,
                 writes |-> resetCVsToDefault.writes, acks |-> AckIfServiceMode(op_mode)]
           ELSE [cache |-> cache, eeprom |-> eeprom, writes |-> 0,
                 acks |-> AckIfServiceMode(op_mode)]
    [] OTHER ->
         [cache |-> [cache EXCEPT ![cmd.number] = cmd.value],
          eeprom |-> [eeprom EXCEPT ![cmd.number] = cmd.value],
          writes |-> 1, acks |-> AckIfServiceMode(op_mode)]

\* cvWriteByte whose default branch stores in the cache only.
cvWriteByte_CacheOnly(op_mode, cmd, cache, eeprom) ==
  CASE cmd.number = CV7ManufacturerVersionNumber ->
         [cache |-> cache, eeprom |-> eeprom, writes |-> 0,
          acks |-> AckIfServiceMode(op_mode)]
    [] cmd.number = CV8ManufacturerIDNumber ->
         IF cmd.value = 8
           THEN [cache |-> resetCVsToDefault.cache, eeprom |-> resetCVsToDefault.eeprom,
                 writes |-> resetCVsToDefault.writes, acks |-> AckIfServiceMode(op_mode)]
           ELSE [cache |-> cache, eeprom |-> eeprom, writes |-> 0,
                 acks |-> AckIfServiceMode(op_mode)]
    [] OTHER ->
         [cache |-> [cache EXCEPT ![cmd.number] = cmd.value],
          eeprom |-> eeprom, writes |-> 0, acks |-> AckIfServiceMode(op_mode)]

\* cvWriteByte that stores a value other than 8 written to CV8.
cvWriteByte_Cv8Stored(op_mode, cmd, cache, eeprom) ==
  CASE cmd.number = CV7ManufacturerVersionNumber ->
         [cache |-> cache, eeprom |-> eeprom, writes |-> 0,
          acks |-> AckIfServiceMode(op_mode)]
    [] cmd.number = CV8ManufacturerIDNumber /\ cmd.value = 8 ->
         [cache |-> resetCVsToDefault.cache, eeprom |-> resetCVsToDefault.eeprom,
          writes |-> resetCVsToDefault.writes, acks |-> AckIfServiceMode(op_mode)]
    [] OTHER ->
         [cache |-> [cache EXCEPT ![cmd.number] = cmd.value],
          eeprom |-> [eeprom EXCEPT ![cmd.number] = cmd.value],
          writes |-> 1, acks |-> AckIfServiceMode(op_mode)]

\* case CvAccess::writeByte
cvWriteByte(op_mode, cmd, cache, eeprom) ==
  CASE cmd.number = CV7ManufacturerVersionNumber ->
         [cache |-> cache, eeprom |-> eeprom, writes |-> 0,
          acks |-> AckIfServiceMode(op_mode)]
    [] cmd.number = CV8ManufacturerIDNumber ->
         IF cmd.value = 8
           THEN [cache |-> resetCVsToDefault.cache, eeprom |-> resetCVsToDefault.eeprom,
                 writes |-> resetCVsToDefault.writes, acks |-> AckIfServiceMode(op_mode)]
           ELSE [cache |-> cache, eeprom |-> eeprom, writes |-> 0,
                 acks |-> AckIfServiceMode(op_mode)]
    [] OTHER ->
         [cache |-> [cache EXCEPT ![cmd.number] = cmd.value],
          eeprom |-> [eeprom EXCEPT ![cmd.number] = cmd.value],
          writes |-> 1, acks |-> AckIfServiceMode(op_mode)]

\* cvBitManipulation whose write acknowledges without storing the new byte.
cvBitManipulation_WriteDropped(op_mode, cmd, cache, eeprom) ==
  IF cmd.writecmd
    THEN [cache |-> cache, eeprom |-> eeprom, writes |-> 0,
          acks |-> AckIfServiceMode(op_mode)]
    ELSE [cache |-> cache, eeprom |-> eeprom, writes |-> 0,
          acks |-> IF verifyBit(cmd, cache[cmd.number])
                     THEN AckIfServiceMode(op_mode) ELSE 0]

\* case CvAccess::bitManipulation: the write stores the new byte in the cache
\* only (no EEPROM.write in this branch).
cvBitManipulation(op_mode, cmd, cache, eeprom) ==
  IF cmd.writecmd
    THEN [cache |-> [cache EXCEPT ![cmd.number] = writeBit(cmd, cache[cmd.number])],
          eeprom |-> eeprom, writes |-> 0, acks |-> AckIfServiceMode(op_mode)]
    ELSE [cache |-> cache, eeprom |-> eeprom, writes |-> 0,
          acks |-> IF verifyBit(cmd, cache[cmd.number])
                     THEN AckIfServiceMode(op_mode) ELSE 0]

\* cvOperation that acknowledges and refreshes outside the bounds check.
cvOperation_AckOutOfBounds(op_mode, cmd, cache, eeprom) ==
  IF InBounds(cmd.number)
    THEN LET r == CASE cmd.operation = "verifyByte" ->
                        cvVerifyByte(op_mode, cmd, cache, eeprom)
                   [] cmd.operation = "writeByte" ->
                        cvWriteByte(op_mode, cmd, cache, eeprom)
                   [] cmd.operation = "bitManipulation" ->
                        cvBitManipulation(op_mode, cmd, cache, eeprom)
         IN  [cache |-> r.cache, eeprom |-> r.eeprom, writes |-> r.writes,
              acks |-> r.acks, refresh |-> TRUE]
    ELSE [cache |-> cache, eeprom |-> eeprom, writes |-> 0,
          acks |-> AckIfServiceMode(op_mode), refresh |-> TRUE]

\* cvOperation(op_mode) on the request cmd: the cache and the EEPROM
\* afterwards, the EEPROM.write and dcc.sendAck() calls made, and whether the
\* two caches were refreshed (only inside the bounds check).
cvOperation(op_mode, cmd, cache, eeprom) ==
  IF InBounds(cmd.number)
    THEN LET r == CASE cmd.operation = "verifyByte" ->
                        cvVerifyByte(op_mode, cmd, cache, eeprom)
                   [] cmd.operation = "writeByte" ->
                        cvWriteByte(op_mode, cmd, cache, eeprom)
                   [] cmd.operation = "bitManipulation" ->
                        cvBitManipulation(op_mode, cmd, cache, eeprom)
         IN  [cache |-> r.cache, eeprom |-> r.eeprom, writes |-> r.writes,
              acks |-> r.acks, refresh |-> TRUE]
    ELSE [cache |-> cache, eeprom |-> eeprom, writes |-> 0, acks |-> 0,
          refresh |-> FALSE]

\* ------------------------------------------------------------------ inputs
\* EEPROM contents at power-up: erased (every byte 255), the factory table, a
\* programmed decoder with a valid marker, and a table with a bad marker.
ErasedEEPROM == [i \in CvIndex |-> 255]
ProgrammedEEPROM ==
  [FactoryDefaults EXCEPT ![1] = 5, ![51] = 31, ![53] = 1, ![54] = 0, ![99] = 77]
CorruptEEPROM == [FactoryDefaults EXCEPT ![8] = 0, ![50] = 9, ![99] = 77]
InitEEPROMs == {ErasedEEPROM, FactoryDefaults, ProgrammedEEPROM, CorruptEEPROM}

\* CV numbers of the requests: in range (1, 7, 8, 51, 54) and the first one
\* out of range (100).
CvNumbers == {1, 7, 8, 51, 54, 100}
CvValues == {0, 8, 29}
BitPositions == {2}

VerifyByteRequests ==
  {[number |-> n, operation |-> "verifyByte", value |-> v, writecmd |-> FALSE,
    bitposition |-> 0, bitvalue |-> 0] : n \in CvNumbers, v \in CvValues}
WriteByteRequests ==
  {[number |-> n, operation |-> "writeByte", value |-> v, writecmd |-> FALSE,
    bitposition |-> 0, bitvalue |-> 0] : n \in CvNumbers, v \in CvValues}
BitRequests ==
  {[number |-> n, operation |-> "bitManipulation", value |-> 0, writecmd |-> w,
    bitposition |-> p, bitvalue |-> b] :
     n \in CvNumbers, w \in BOOLEAN, p \in BitPositions, b \in {0, 1}}
CvRequests == VerifyByteRequests \cup WriteByteRequests \cup BitRequests

Speeds == {0, 50}
\* Bitmasks of the function groups: F0F4 (bit 4 is F0), the others.
F0F4Masks == {0, 1, 16}
F5F8Masks == {0, 8}
F9F12Masks == {0, 1}
F13F20Masks == {0, 128}
F21F28Masks == {0, 128}

\* millis() values sampled by the renderer: 0 is inside the strobe window and
\* at the start of the rotating wave, 463 is after the strobe window
\* (463 % 150 = 13) and in the falling half of the rotating wave.
Times == {0, 463}

\* ----------------------------------------------------- NmraDcc firmware
\* The build of the firmware on the NmraDcc library.  The library keeps the
\* CVs in its own EEPROM store and calls the notify* functions of the sketch;
\* the sketch mirrors the CVs it uses in cvsCache[].
numberOfFctsInCache == 5
CV84Light3Effect == 84
numberOfCvsInCache == CV84Light3Effect + 1

NmraCvIndex == 0..(numberOfCvsInCache - 1)
NmraFcts == 0..(numberOfFctsInCache - 1)

\* const CVPair FactoryDefaultCVs[]: entry i of the C array is element i + 1.
FactoryDefaultCVs ==
  << [CV |-> 1, Value |-> 3], [CV |-> 7, Value |-> 1], [CV |-> 8, Value |-> 13],
     [CV |-> 50, Value |-> 255], [CV |-> 51, Value |-> 0], [CV |-> 52, Value |-> 0],
     [CV |-> 53, Value |-> 0], [CV |-> 54, Value |-> 1],
     [CV |-> 60, Value |-> 150], [CV |-> 61, Value |-> 1], [CV |-> 62, Value |-> 0],
     [CV |-> 63, Value |-> 0], [CV |-> 64, Value |-> 2],
     [CV |-> 70, Value |-> 150], [CV |-> 71, Value |-> 2], [CV |-> 72, Value |-> 0],
     [CV |-> 73, Value |-> 0], [CV |-> 74, Value |-> 0],
     [CV |-> 80, Value |-> 150], [CV |-> 81, Value |-> 3], [CV |-> 82, Value |-> 0],
     [CV |-> 83, Value |-> 0], [CV |-> 84, Value |-> 0] >>

\* sizeof(FactoryDefaultCVs) / sizeof(CVPair)
FactoryDefaultCVCount == Len(FactoryDefaultCVs)

\* The globals of the sketch after construction, with the library's CV store
\* holding store.  call, recomputed and issued are history: the last notify*
\* call of the library with its arguments, whether updateLightCache() ran in
\* the last loop() iteration, and the indexes of FactoryDefaultCVs passed to
\* Dcc.setCV() since the last notifyCVResetFactoryDefault().
NmraConstruction(store) ==
  [pc |-> "boot",
   store |-> store,
   cvsCache |-> [i \in NmraCvIndex |-> 0],
   lightCache |-> [l \in Lights |-> FALSE],
   fctsCache |-> [f \in NmraFcts |-> FALSE],
   currentSpeed |-> 0,
   currentDirection |-> "DCC_DIR_FWD",
   currentSpeedSteps |-> "SPEED_STEP_128",
   currentFuncState |-> 0,
   FactoryDefaultCVIndex |-> 0,
   now |-> 0,
   duty |-> [l \in Lights |-> 0],
   analogWrites |-> [l \in Lights |-> 0],
   nPackets |-> 0,
   call |-> <<"none">>,
   recomputed |-> FALSE,
   issued |-> <<>>]

\* notifyCVChange(CV, Value)
notifyCVChange(n, CV, Value) ==
  IF CV < numberOfCvsInCache THEN [n EXCEPT !.cvsCache[CV] = Value] ELSE n

\* notifyCVResetFactoryDefault()
notifyCVResetFactoryDefault(n) ==
  [n EXCEPT !.FactoryDefaultCVIndex = FactoryDefaultCVCount, !.issued = <<>>]

\* The library's write of one CV (Dcc.setCV, and the CV write packets it
\* accepts): the store is written and notifyCVChange() called when the value
\* differs from the stored one.
DccSetCV(n, CV, Value) ==
  IF n.store[CV] # Value
    THEN notifyCVChange([n EXCEPT !.store[CV] = Value], CV, Value)
    ELSE n

\* Dcc.init(MAN_ID_DIY, 10, FLAGS_MY_ADDRESS_ONLY | FLAGS_AUTO_FACTORY_DEFAULT, 0):
\* the library clears the accessory bits of CV29, writes the version 10 and
\* the manufacturer 13, and with FLAGS_AUTO_FACTORY_DEFAULT calls
\* notifyCVResetFactoryDefault() when both read 255 (an erased store) before.
DccInit(n) ==
  LET erased == n.store[CV7ManufacturerVersionNumber] = 255
                  /\ n.store[CV8ManufacturerIDNumber] = 255
      n1 == DccSetCV(n, 29, n.store[29] % 64)
      n2 == DccSetCV(n1, CV7ManufacturerVersionNumber, 10)
      n3 == DccSetCV(n2, CV8ManufacturerIDNumber, 13)
  IN  IF erased THEN notifyCVResetFactoryDefault(n3) ELSE n3

\* readCvsToCache(): the CVs listed in FactoryDefaultCVs are read from the
\* library's store with Dcc.getCV().
readCvsToCache(n) ==
  LET listed == {FactoryDefaultCVs[i].CV : i \in 1..FactoryDefaultCVCount}
  IN  [n EXCEPT !.cvsCache =
         [i \in NmraCvIndex |-> IF i \in listed THEN n.store[i] ELSE n.cvsCache[i]]]

\* updateLightCache() with the test of the speed currentSpeed > 0.
updateLightCache_SpeedAboveZero(n) ==
  LET ctrl == {CV51Light0ControlFunction + l * 10 : l \in Lights}
      cvs == [i \in NmraCvIndex |->
                IF i \in ctrl /\ n.cvsCache[i] > numberOfFctsInCache - 1
                  THEN 31 ELSE n.cvsCache[i]]
  IN  [n EXCEPT
         !.cvsCache = cvs,
         !.recomputed = TRUE,
         !.lightCache =
            [l \in Lights |->
               LET off == l * 10
                   c == cvs[CV51Light0ControlFunction + off]
                   d == cvs[CV52Light0DirectionSensitivity + off]
                   s == cvs[CV53Light0SpeedSensitivity + off]
               IN  /\ (c = 31 \/ n.fctsCache[c])
                   /\ (d = 0 \/ (d = 1 /\ n.currentDirection = "DCC_DIR_FWD")
                             \/ (d = 2 /\ n.currentDirection = "DCC_DIR_REV"))
                   /\ (s = 0 \/ (s = 1 /\ n.currentSpeed > 0))]]

\* updateLightCache(): a control function CV above numberOfFctsInCache - 1 is
\* overwritten with 31 in cvsCache, then the gate of each light is computed.
updateLightCache(n) ==
  LET ctrl == {CV51Light0ControlFunction + l * 10 : l \in Lights}
      cvs == [i \in NmraCvIndex |->
                IF i \in ctrl /\ n.cvsCache[i] > numberOfFctsInCache - 1
                  THEN 31 ELSE n.cvsCache[i]]
  IN  [n EXCEPT
         !.cvsCache = cvs,
         !.recomputed = TRUE,
         !.lightCache =
            [l \in Lights |->
               LET off == l * 10
                   c == cvs[CV51Light0ControlFunction + off]
                   d == cvs[CV52Light0DirectionSensitivity + off]
                   s == cvs[CV53Light0SpeedSensitivity + off]
               IN  /\ (c = 31 \/ n.fctsCache[c])
                   /\ (d = 0 \/ (d = 1 /\ n.currentDirection = "DCC_DIR_FWD")
                             \/ (d = 2 /\ n.currentDirection = "DCC_DIR_REV"))
                   /\ (s = 0 \/ (s = 1 /\ n.currentSpeed > 1))]]

\* notifyDccSpeed that assigns and recomputes on every call.
notifyDccSpeed_NoChangeTest(n, Speed, Dir, SpeedSteps) ==
  updateLightCache([n EXCEPT !.currentDirection = Dir, !.currentSpeed = Speed,
                             !.currentSpeedSteps = SpeedSteps])

\* notifyDccSpeed(Addr, AddrType, Speed, Dir, SpeedSteps)
notifyDccSpeed(n, Speed, Dir, SpeedSteps) ==
  IF n.currentDirection # Dir \/ n.currentSpeed # Speed
       \/ n.currentSpeedSteps # SpeedSteps
    THEN updateLightCache([n EXCEPT !.currentDirection = Dir,
                                    !.currentSpeed = Speed,
                                    !.currentSpeedSteps = SpeedSteps])
    ELSE n

\* notifyDccFunc(Addr, AddrType, FuncGrp, FuncState): FN_BIT_00 is bit 4 of
\* the group byte, FN_BIT_01..FN_BIT_04 are bits 0..3.
notifyDccFunc(n, FuncGrp, FuncState) ==
  IF FuncGrp = "FN_0_4" /\ n.currentFuncState # FuncState
    THEN updateLightCache(
           [n EXCEPT !.currentFuncState = FuncState,
                     !.fctsCache = [f \in NmraFcts |->
                                      IF f = 0 THEN BitOf(FuncState, 4) = 1
                                               ELSE BitOf(FuncState, f - 1) = 1]])
    ELSE n

\* resetFctsToDefault()
resetFctsToDefault(n) == [n EXCEPT !.fctsCache = [f \in NmraFcts |-> FALSE]]

\* ------------------------------------------------------------------- state
VARIABLES
  pc,               \* "boot" before setup(), "run" once loop() is running
  EEPROM,           \* persistent bytes 0..99
  cvsCache,         \* uint8_t cvsCache[NumberOfCvsInCache]
  fctStateCache,    \* bool fctStateCache[numberOfFcts]
  lightStateCache,  \* bool lightStateCache[numberOfLights]
  locoCmd,          \* library object: speed, forward, the five group bitmasks
  cvCmd,            \* library object: the CV access request
  cmdType,          \* dcc.cmdType
  myAddress,        \* the address given to locoCmd.setMyAddress()
  acks,             \* dcc.sendAck() calls made for the last bus event
  eepromWrites,     \* EEPROM.write calls made by setup() or for the last bus event
  fctIndexes,       \* indexes the last updateLightsStateCache() used on fctStateCache
  now,              \* millis() sampled by the last rendering
  duty,             \* the values last passed to analogWrite(), per light
  nEvents,          \* bus events processed so far
  restarted,        \* the decoder has been through a power cycle
  durable,          \* history: the <<CV, value>> pairs of the write-byte requests
                    \* whose CV no later request addressed, since the last
                    \* factory reset by CV8
  analogWrites,     \* history: analogWrite() calls of the last loop() iteration,
                    \* per light
  nmra,             \* the globals of the NmraDcc build of the firmware
  twin              \* a second decoder that is given the same bus events: its
                    \* EEPROM, cvsCache, fctStateCache, lightStateCache and acks;
                    \* where it runs the earlier build on the same CVs and
                    \* gates, its millis() and analogWrite() values

vars == <<pc, EEPROM, cvsCache, fctStateCache, lightStateCache, locoCmd, cvCmd,
          cmdType, myAddress, acks, eepromWrites, fctIndexes, now, duty,
          nEvents, restarted, durable, analogWrites, nmra, twin>>

\* The variables of the AP_DCC_library build and of the second decoder.
apVars == <<pc, EEPROM, cvsCache, fctStateCache, lightStateCache, locoCmd, cvCmd,
            cmdType, myAddress, acks, eepromWrites, fctIndexes, now, duty,
            nEvents, restarted, durable, analogWrites, twin>>

\* A decoder that is not part of the run: it has no power and takes no step.
Unpowered == [pc |-> "off"]

\* The second decoder after construction, on the same EEPROM contents.
TwinConstruction(eeprom) ==
  [EEPROM |-> eeprom,
   cvsCache |-> [i \in CvIndex |-> 0],
   fctStateCache |-> [f \in Fcts |-> FALSE],
   lightStateCache |-> [l \in Lights |-> FALSE],
   acks |-> 0]

\* The state after construction: statics are zero, the EEPROM holds what the
\* last power cycle left.
Init ==
  /\ pc = "boot"
  /\ EEPROM \in InitEEPROMs
  /\ cvsCache = [i \in CvIndex |-> 0]
  /\ fctStateCache = [f \in Fcts |-> FALSE]
  /\ lightStateCache = [l \in Lights |-> FALSE]
  /\ locoCmd = [speed |-> 0, forward |-> TRUE, F0F4 |-> 0, F5F8 |-> 0, F9F12 |-> 0,
                F13F20 |-> 0, F21F28 |-> 0]
  /\ cvCmd = [number |-> 0, operation |-> "verifyByte", value |-> 0,
              writecmd |-> FALSE, bitposition |-> 0, bitvalue |-> 0]
  /\ cmdType = "Unknown"
  /\ myAddress = 0
  /\ acks = 0
  /\ eepromWrites = 0
  /\ fctIndexes = {}
  /\ now = 0
  /\ duty = [l \in Lights |-> 0]
  /\ nEvents = 0
  /\ restarted = FALSE
  /\ durable = {}
  /\ analogWrites = [l \in Lights |-> 0]
  /\ nmra = Unpowered
  /\ twin = Unpowered

\* The variables of the AP_DCC_library build after construction of a decoder
\* whose EEPROM is one of eeproms.
ApPowerUp(eeproms) ==
  /\ pc = "boot"
  /\ EEPROM \in eeproms
  /\ cvsCache = [i \in CvIndex |-> 0]
  /\ fctStateCache = [f \in Fcts |-> FALSE]
  /\ lightStateCache = [l \in Lights |-> FALSE]
  /\ locoCmd = [speed |-> 0, forward |-> TRUE, F0F4 |-> 0, F5F8 |-> 0, F9F12 |-> 0,
                F13F20 |-> 0, F21F28 |-> 0]
  /\ cvCmd = [number |-> 0, operation |-> "verifyByte", value |-> 0,
              writecmd |-> FALSE, bitposition |-> 0, bitvalue |-> 0]
  /\ cmdType = "Unknown"
  /\ myAddress = 0
  /\ acks = 0
  /\ eepromWrites = 0
  /\ fctIndexes = {}
  /\ now = 0
  /\ duty = [l \in Lights |-> 0]
  /\ nEvents = 0
  /\ restarted = FALSE
  /\ durable = {}
  /\ analogWrites = [l \in Lights |-> 0]

\* The state after construction of a decoder whose EEPROM is one of eeproms;
\* the NmraDcc build and the second decoder are not powered.
PowerUpWith(eeproms) ==
  /\ ApPowerUp(eeproms)
  /\ nmra = Unpowered
  /\ twin = Unpowered

\* setupCVs with the marker test inverted.
setupCVs_InvertedMarkerTest(eeprom) ==
  IF eeprom[CV8ManufacturerIDNumber] # 13
    THEN [cache |-> loadCVsFromEEPROM(eeprom), eeprom |-> eeprom, writes |-> 0]
    ELSE resetCVsToDefault

\* setupCVs that loads the EEPROM whatever the marker is.
setupCVs_NoMarkerTest(eeprom) ==
  [cache |-> loadCVsFromEEPROM(eeprom), eeprom |-> eeprom, writes |-> 0]

\* The marker test of setup(): load the EEPROM or reset to the defaults.
setupCVs(eeprom) ==
  IF eeprom[CV8ManufacturerIDNumber] = 13
    THEN [cache |-> loadCVsFromEEPROM(eeprom), eeprom |-> eeprom, writes |-> 0]
    ELSE resetCVsToDefault

\* setup(), on the variables of this decoder.
SetupBody ==
  /\ pc = "boot"
  /\ pc' = "run"
  /\ \E s \in {setupCVs(EEPROM)} :
         /\ cvsCache' = s.cache
         /\ EEPROM' = s.eeprom
         /\ eepromWrites' = s.writes
         /\ myAddress' = s.cache[CV1PrimaryAddress]
         /\ fctStateCache' = updateFctsStateCache(locoCmd)
         /\ lightStateCache' \in
              updateLightsStateCache(s.cache, fctStateCache', locoCmd)
         /\ fctIndexes' = FctIndexesRead(s.cache)
  /\ acks' = 0
  /\ UNCHANGED <<locoCmd, cvCmd, cmdType, now, duty, nEvents, restarted, durable,
                 analogWrites>>

\* setup()
Setup == SetupBody /\ UNCHANGED <<nmra, twin>>

\* The duty values the four analogWrite(pinLight[lightNr], valueLight(lightNr))
\* calls of one loop() iteration can pass, with millis() = t.
DutyOutcomes(cache, light, t) ==
  {[l \in Lights |-> CASE l = 0 -> d0 [] l = 1 -> d1 [] l = 2 -> d2 [] OTHER -> d3] :
     d0 \in valueLight(cache, light, 0, t), d1 \in valueLight(cache, light, 1, t),
     d2 \in valueLight(cache, light, 2, t), d3 \in valueLight(cache, light, 3, t)}

\* Render that writes the outputs only on iterations without a bus event.
Render_SkippedOnEvent(t) ==
  /\ now' = t
  /\ IF nEvents' = nEvents
       THEN /\ duty' \in DutyOutcomes(cvsCache', lightStateCache', t)
            /\ analogWrites' = [l \in Lights |-> 1]
       ELSE /\ duty' = duty
            /\ analogWrites' = [l \in Lights |-> 0]

\* The rendering at the end of loop(), on the caches the iteration leaves,
\* with millis() = t.
Render(t) ==
  /\ now' = t
  /\ duty' \in DutyOutcomes(cvsCache', lightStateCache', t)
  /\ analogWrites' = [l \in Lights |-> 1]

\* updateFctsStateCache(); updateLightsStateCache(); on the caches the
\* iteration leaves.
RefreshCaches ==
  /\ fctStateCache' = updateFctsStateCache(locoCmd')
  /\ lightStateCache' \in updateLightsStateCache(cvsCache', fctStateCache', locoCmd')
  /\ fctIndexes' = FctIndexesRead(cvsCache')

\* loop() when dcc.input() returns false, with millis() in times, on the
\* variables of this decoder.
LoopIdleBody(times) ==
  /\ pc = "run"
  /\ UNCHANGED <<pc, EEPROM, cvsCache, fctStateCache, lightStateCache, locoCmd,
                 cvCmd, cmdType, myAddress, acks, eepromWrites, fctIndexes, nEvents,
                 restarted, durable>>
  /\ \E t \in times : Render(t)

\* loop() when dcc.input() returns false, with millis() in times.
LoopIdle(times) == LoopIdleBody(times) /\ UNCHANGED <<nmra, twin>>

\* loop() when dcc.input() returns false.  loop() runs far more often than the
\* bus delivers a command: the clock is seen to advance on these iterations,
\* and an iteration that handles a command renders at the time of the one
\* before it.
LoopNoInput == LoopIdle(Times)

\* loop() on a command the switch does nothing for: Dcc::ResetCmd,
\* Dcc::MyEmergencyStopCmd and the default branch.  The firmware reads no
\* field of locoCmd here, and the model leaves the object as it was.
LoopIgnoredCmd ==
  /\ pc = "run"
  /\ nEvents < MaxEvents
  /\ nEvents' = nEvents + 1
  /\ cmdType' \in {"ResetCmd", "MyEmergencyStopCmd", "IgnoreCmd"}
  /\ acks' = 0
  /\ eepromWrites' = 0
  /\ UNCHANGED <<pc, EEPROM, cvsCache, fctStateCache, lightStateCache, locoCmd,
                 cvCmd, myAddress, fctIndexes, restarted, durable, nmra, twin>>
  /\ Render(now)

\* What the library leaves in locoCmd when it reports the loco command type.
LocoUpdates(type, loco) ==
  CASE type = "MyLocoSpeedCmd" ->
         {[loco EXCEPT !.speed = s, !.forward = f] : s \in Speeds, f \in BOOLEAN}
    [] type = "MyLocoF0F4Cmd" -> {[loco EXCEPT !.F0F4 = m] : m \in F0F4Masks}
    [] type = "MyLocoF5F8Cmd" -> {[loco EXCEPT !.F5F8 = m] : m \in F5F8Masks}
    [] type = "MyLocoF9F12Cmd" -> {[loco EXCEPT !.F9F12 = m] : m \in F9F12Masks}
    [] type = "MyLocoF13F20Cmd" -> {[loco EXCEPT !.F13F20 = m] : m \in F13F20Masks}
    [] type = "MyLocoF21F28Cmd" -> {[loco EXCEPT !.F21F28 = m] : m \in F21F28Masks}

LocoCmdTypes == {"MyLocoSpeedCmd", "MyLocoF0F4Cmd", "MyLocoF5F8Cmd", "MyLocoF9F12Cmd",
                 "MyLocoF13F20Cmd", "MyLocoF21F28Cmd"}

\* loop() on Dcc::MyLocoSpeedCmd and the five function group commands, on the
\* variables of this decoder; updates[type] is what the library can leave in
\* locoCmd when it reports the command type.
LoopLocoCmdBody(updates) ==
  /\ pc = "run"
  /\ nEvents < MaxEvents
  /\ nEvents' = nEvents + 1
  /\ cmdType' \in LocoCmdTypes
  /\ locoCmd' \in updates[cmdType']
  /\ acks' = 0
  /\ eepromWrites' = 0
  /\ UNCHANGED <<pc, EEPROM, cvsCache, cvCmd, myAddress, restarted, durable>>
  /\ RefreshCaches
  /\ Render(now)

\* loop() on Dcc::MyLocoSpeedCmd and the five function group commands.
LoopLocoCmd ==
  /\ LoopLocoCmdBody([t \in LocoCmdTypes |-> LocoUpdates(t, locoCmd)])
  /\ UNCHANGED <<nmra, twin>>

\* The write history after the request cmd: a request in range drops the pair
\* of the CV it addresses, a write-byte that stores adds its pair, the factory
\* reset by CV8 empties the history.
TrackWrites(cmd, history) ==
  IF InBounds(cmd.number)
    THEN LET others == {w \in history : w[1] # cmd.number}
         IN  IF cmd.operation # "writeByte" \/ cmd.number = CV7ManufacturerVersionNumber
               THEN others
             ELSE IF cmd.number = CV8ManufacturerIDNumber
               THEN IF cmd.value = 8 THEN {} ELSE others
             ELSE others \cup {<<cmd.number, cmd.value>>}
    ELSE history

\* loop() on Dcc::MyPomCmd (op_mode OPModeProgramOnMain) and Dcc::SmCmd
\* (op_mode OPModeServiceMode): cvOperation(op_mode) on a request of the set
\* requests, on the variables of this decoder.
LoopCvCmdBody(type, op_mode, requests) ==
  /\ pc = "run"
  /\ nEvents < MaxEvents
  /\ nEvents' = nEvents + 1
  /\ cmdType' = type
  /\ cvCmd' \in requests
  /\ durable' = TrackWrites(cvCmd', durable)
  /\ \E r \in {cvOperation(op_mode, cvCmd', cvsCache, EEPROM)} :
         /\ cvsCache' = r.cache
         /\ EEPROM' = r.eeprom
         /\ acks' = r.acks
         /\ eepromWrites' = r.writes
         /\ UNCHANGED <<pc, locoCmd, myAddress, restarted>>
         /\ IF r.refresh
              THEN RefreshCaches
              ELSE UNCHANGED <<fctStateCache, lightStateCache, fctIndexes>>
  /\ Render(now)

LoopCvCmdOn(type, op_mode, requests) ==
  LoopCvCmdBody(type, op_mode, requests) /\ UNCHANGED <<nmra, twin>>

LoopCvCmd(type, op_mode) == LoopCvCmdOn(type, op_mode, CvRequests)

LoopPomCmd == LoopCvCmd("MyPomCmd", OPModeProgramOnMain)

LoopSmCmd == LoopCvCmd("SmCmd", OPModeServiceMode)

\* One power-up followed by loop() iterations: the power stays on.
Next ==
  \/ Setup
  \/ LoopNoInput
  \/ LoopIgnoredCmd
  \/ LoopLocoCmd
  \/ LoopPomCmd
  \/ LoopSmCmd

Spec == Init /\ [][Next]_vars

\* ------------------------------------------------------------- power cycle
\* The supply is cut and restored while loop() runs: RAM and the library
\* objects are as after construction, the PWM outputs are off, millis()
\* restarts, the EEPROM keeps its bytes, and setup() runs next.  A behaviour
\* has at most one power cycle, after its first bus event (before it, the
\* power cycle leads to a power-up that Init already has: every EEPROM that
\* setup() leaves is in InitEEPROMs).
PowerCycle ==
  /\ pc = "run"
  /\ nEvents > 0
  /\ ~restarted
  /\ restarted' = TRUE
  /\ pc' = "boot"
  /\ cvsCache' = [i \in CvIndex |-> 0]
  /\ fctStateCache' = [f \in Fcts |-> FALSE]
  /\ lightStateCache' = [l \in Lights |-> FALSE]
  /\ locoCmd' = [speed |-> 0, forward |-> TRUE, F0F4 |-> 0, F5F8 |-> 0, F9F12 |-> 0,
                 F13F20 |-> 0, F21F28 |-> 0]
  /\ cvCmd' = [number |-> 0, operation |-> "verifyByte", value |-> 0,
               writecmd |-> FALSE, bitposition |-> 0, bitvalue |-> 0]
  /\ cmdType' = "Unknown"
  /\ myAddress' = 0
  /\ acks' = 0
  /\ eepromWrites' = 0
  /\ fctIndexes' = {}
  /\ now' = 0
  /\ duty' = [l \in Lights |-> 0]
  /\ analogWrites' = [l \in Lights |-> 0]
  /\ UNCHANGED <<EEPROM, nEvents, durable, nmra, twin>>

NextPower ==
  \/ Setup
  \/ LoopNoInput
  \/ LoopIgnoredCmd
  \/ LoopLocoCmd
  \/ LoopPomCmd
  \/ LoopSmCmd
  \/ PowerCycle

\* The decoder with a power cycle at any point of its run.
SpecPower == Init /\ [][NextPower]_vars

\* ------------------------------------------------ configured light channel
\* EEPROM contents of a decoder programmed by write-byte requests: the marker
\* is in place, every effect is steady, and one channel has its control
\* function, direction sensitivity and speed sensitivity set (values in and
\* out of the enumerations); the others keep the factory values.
SteadyDefaults == [FactoryDefaults EXCEPT ![54] = 0, ![64] = 0]
CtrlFunctions == {0, 8, 28, 31}
DirectionSensitivities == {0, 1, 2, 3}
SpeedSensitivities == {0, 1, 2}
GateEEPROMs ==
  {[SteadyDefaults EXCEPT ![51 + 10 * c] = fn, ![52 + 10 * c] = d, ![53 + 10 * c] = sp] :
     c \in Lights, fn \in CtrlFunctions, d \in DirectionSensitivities,
     sp \in SpeedSensitivities}

InitGate == PowerUpWith(GateEEPROMs)

NextGate ==
  \/ Setup
  \/ LoopNoInput
  \/ LoopIgnoredCmd
  \/ LoopLocoCmd

\* The configured decoder under speed, direction and function group events.
SpecGate == InitGate /\ [][NextGate]_vars

\* ------------------------------------------------ function group bitmasks
\* Every bitmask a function group command can carry: five bits for F0F4, four
\* for F5F8 and F9F12, eight for F13F20 and F21F28.
AllMasks(type) ==
  CASE type = "MyLocoF0F4Cmd" -> 0..31
    [] type = "MyLocoF5F8Cmd" -> 0..15
    [] type = "MyLocoF9F12Cmd" -> 0..15
    [] type = "MyLocoF13F20Cmd" -> 0..255
    [] type = "MyLocoF21F28Cmd" -> 0..255

\* What the library leaves in locoCmd: the second bus event of a run carries
\* any bitmask of its group, the other events those of LocoUpdates.
FctUpdates(type, loco) ==
  IF nEvents = 1 /\ type # "MyLocoSpeedCmd"
    THEN CASE type = "MyLocoF0F4Cmd" -> {[loco EXCEPT !.F0F4 = m] : m \in AllMasks(type)}
           [] type = "MyLocoF5F8Cmd" -> {[loco EXCEPT !.F5F8 = m] : m \in AllMasks(type)}
           [] type = "MyLocoF9F12Cmd" -> {[loco EXCEPT !.F9F12 = m] : m \in AllMasks(type)}
           [] type = "MyLocoF13F20Cmd" -> {[loco EXCEPT !.F13F20 = m] : m \in AllMasks(type)}
           [] type = "MyLocoF21F28Cmd" -> {[loco EXCEPT !.F21F28 = m] : m \in AllMasks(type)}
    ELSE LocoUpdates(type, loco)

LoopFctCmd ==
  /\ LoopLocoCmdBody([t \in LocoCmdTypes |-> FctUpdates(t, locoCmd)])
  /\ UNCHANGED <<nmra, twin>>

InitFcts == PowerUpWith({FactoryDefaults, ProgrammedEEPROM})

NextFcts ==
  \/ Setup
  \/ LoopNoInput
  \/ LoopFctCmd

\* The decoder under speed and function group commands with every bitmask.
SpecFcts == InitFcts /\ [][NextFcts]_vars

\* ------------------------------------------------- bit write, bit verify
\* EEPROM contents of a decoder whose last CV in range (99) was programmed to
\* any byte.
BitCv == NumberOfCvsInCache - 1
BitEEPROMs == {[FactoryDefaults EXCEPT ![BitCv] = d] : d \in Byte}

\* The bit-manipulation write requests to that CV: every position and value.
BitWriteRequests ==
  {[number |-> BitCv, operation |-> "bitManipulation", value |-> 0, writecmd |-> TRUE,
    bitposition |-> p, bitvalue |-> b] : p \in 0..7, b \in {0, 1}}

InitBits == PowerUpWith(BitEEPROMs)

\* The first bus event: a bit-manipulation write, on the main or in service
\* mode.
BitWrite ==
  /\ nEvents = 0
  /\ \/ LoopCvCmdOn("MyPomCmd", OPModeProgramOnMain, BitWriteRequests)
     \/ LoopCvCmdOn("SmCmd", OPModeServiceMode, BitWriteRequests)

\* The next bus event: the service-mode bit verify of the same CV, position
\* and value.
BitVerify ==
  /\ nEvents = 1
  /\ LoopCvCmdOn("SmCmd", OPModeServiceMode, {[cvCmd EXCEPT !.writecmd = FALSE]})

NextBits ==
  \/ Setup
  \/ BitWrite
  \/ BitVerify

\* A bit-manipulation write followed at once by its service-mode verify.
SpecBits == InitBits /\ [][NextBits]_vars

\* ------------------------------------------------------- steady rendering
\* EEPROM contents of a decoder with every effect steady and one channel
\* programmed to any brightness, its control function 31 (gate true) or 0
\* (gate false while F0 is off).
SteadyEEPROMs ==
  {[SteadyDefaults EXCEPT ![50 + 10 * c] = b, ![51 + 10 * c] = fn] :
     c \in Lights, b \in Byte, fn \in {0, 31}}

\* millis() values: around the strobe window, the middle and the end of the
\* rotating period, later periods, 2^31 - 1 (millis() after 24 days).
SteadyTimes == {0, 12, 13, 149, 300, 599, 600, 463000, 2147483647}

InitSteady == PowerUpWith(SteadyEEPROMs)

LoopIdleSteady == LoopIdle(SteadyTimes)

NextSteady ==
  \/ Setup
  \/ LoopIdleSteady

\* The steady decoder rendering at the sampled times.
SpecSteady == InitSteady /\ [][NextSteady]_vars

\* ------------------------------------------------------ flashing rendering
\* EEPROM contents of a decoder with one channel always active (control
\* function 31) and programmed to strobe or rotating flash at a brightness
\* with gamma 0 (0, 1), the first with gamma 1 (28), 200 or 255.
FlashBrightnesses == {0, 1, 28, 200, 255}
FlashEEPROMs ==
  {[SteadyDefaults EXCEPT ![50 + 10 * c] = b, ![51 + 10 * c] = 31, ![54 + 10 * c] = e] :
     c \in Lights, b \in FlashBrightnesses, e \in {1, 2}}

\* Every millisecond of two rotating periods (eight strobe periods).
FlashTimes == 0..(2 * rotatingFlashPeriod - 1)

InitFlash == PowerUpWith(FlashEEPROMs)

\* loop() with no input runs again within the same millisecond or in the
\* next one.
LoopIdleFlash == LoopIdle({now, now + 1} \cap FlashTimes)

NextFlash ==
  \/ Setup
  \/ LoopIdleFlash

\* The flashing decoder rendering at every millisecond.
SpecFlash == InitFlash /\ [][NextFlash]_vars

\* ------------------------------------------------ rotating flash, two builds
\* EEPROM contents of a decoder with light 0 always active (control function
\* 31) and programmed to rotating flash at any brightness.
RotateEEPROMs ==
  {[SteadyDefaults EXCEPT ![50] = b, ![51] = 31, ![54] = 2] : b \in Byte}

\* Every millisecond of two periods of 600 ms, which are three of 400 ms.
RotateTimes == 0..(2 * rotatingFlashPeriod - 1)

InitRotate == PowerUpWith(RotateEEPROMs)

\* The four analogWrite() calls of the earlier build at millis() = t, on the
\* CVs and gates of this decoder.
EarlierRender(t) ==
  \E d0 \in earlierValueLight(cvsCache, lightStateCache, 0, t),
     d1 \in earlierValueLight(cvsCache, lightStateCache, 1, t),
     d2 \in earlierValueLight(cvsCache, lightStateCache, 2, t),
     d3 \in earlierValueLight(cvsCache, lightStateCache, 3, t) :
    twin' = [pc |-> "run", now |-> t,
             duty |-> [l \in Lights |->
                         CASE l = 0 -> d0 [] l = 1 -> d1 [] l = 2 -> d2 [] OTHER -> d3]]

\* loop() of both builds with no input, within the same millisecond or in
\* the next one.
LoopIdleRotate ==
  \E t \in {now, now + 1} \cap RotateTimes :
    /\ LoopIdleBody({t})
    /\ EarlierRender(t)
    /\ UNCHANGED nmra

NextRotate ==
  \/ Setup
  \/ LoopIdleRotate

\* The rotating flash of both builds at every millisecond, for every
\* brightness.
SpecRotate == InitRotate /\ [][NextRotate]_vars

\* ------------------------------------------------- NmraDcc: setup and loop
\* The library's CV store at power-up: erased, as a factory reset leaves an
\* erased store, and programmed with light 0 always active, reverse only,
\* steady and light 1 only when moving.
NmraFactoryStore ==
  [i \in CvIndex |->
     IF \E k \in 1..FactoryDefaultCVCount : FactoryDefaultCVs[k].CV = i
       THEN (CHOOSE e \in {FactoryDefaultCVs[k] : k \in 1..FactoryDefaultCVCount} :
               e.CV = i).Value
       ELSE 255]
NmraProgrammedStore ==
  [NmraFactoryStore EXCEPT ![7] = 10, ![29] = 6, ![51] = 31, ![52] = 2, ![54] = 0,
                           ![63] = 1]
NmraStores == {ErasedEEPROM, NmraFactoryStore, NmraProgrammedStore}

\* The packets for this decoder that Dcc.process() can take from the bus in
\* one call: a speed packet, a function group packet, a CV write it accepts
\* and stores, and a CV write to CV8, which it refuses and answers with
\* notifyCVResetFactoryDefault().
NmraSpeeds == {0, 1, 50}
NmraFuncStates == {0, 1, 16}
NmraCvNumbers == {51, 52, 53, 90}
NmraCvValues == {0, 1, 2, 8}

NoPacket == [kind |-> "none"]
SpeedPackets ==
  {[kind |-> "speed", Speed |-> s, Dir |-> d, SpeedSteps |-> st] :
     s \in NmraSpeeds, d \in {"DCC_DIR_FWD", "DCC_DIR_REV"},
     st \in {"SPEED_STEP_28", "SPEED_STEP_128"}}
FuncPackets ==
  {[kind |-> "func", FuncGrp |-> g, FuncState |-> m] :
     g \in {"FN_0_4", "FN_5_8"}, m \in NmraFuncStates}
CvWritePackets ==
  {[kind |-> "cvWrite", CV |-> c, Value |-> v] : c \in NmraCvNumbers, v \in NmraCvValues}
CvResetPackets == {[kind |-> "cvWrite", CV |-> CV8ManufacturerIDNumber, Value |-> 8]}

\* Dcc.process(): the callbacks the library makes for the packet p.
DccProcess(n, p) ==
  CASE p.kind = "none" -> n
    [] p.kind = "speed" ->
         [notifyDccSpeed(n, p.Speed, p.Dir, p.SpeedSteps) EXCEPT
            !.call = <<"notifyDccSpeed", p.Speed, p.Dir, p.SpeedSteps>>]
    [] p.kind = "func" ->
         [notifyDccFunc(n, p.FuncGrp, p.FuncState) EXCEPT
            !.call = <<"notifyDccFunc", p.FuncGrp, p.FuncState>>]
    [] p.kind = "cvWrite" ->
         IF p.CV = CV8ManufacturerIDNumber
           THEN [notifyCVResetFactoryDefault(n) EXCEPT
                   !.call = <<"notifyCVResetFactoryDefault">>]
         ELSE IF n.store[p.CV] # p.Value
           THEN [DccSetCV(n, p.CV, p.Value) EXCEPT
                   !.call = <<"notifyCVChange", p.CV, p.Value>>]
         ELSE n

\* The last statement of loop() with a guard that leaves the first entry of
\* the table out.
FactoryDefaultStep_StopsAtOne(n, ready) ==
  IF n.FactoryDefaultCVIndex > 1 /\ ready
    THEN LET idx == n.FactoryDefaultCVIndex - 1
         IN  DccSetCV([n EXCEPT !.FactoryDefaultCVIndex = idx,
                                !.issued = Append(@, idx)],
                      FactoryDefaultCVs[idx + 1].CV, FactoryDefaultCVs[idx + 1].Value)
    ELSE n

\* The last statement of loop(): if (FactoryDefaultCVIndex &&
\* Dcc.isSetCVReady()), with ready the value Dcc.isSetCVReady() returns.
FactoryDefaultStep(n, ready) ==
  IF n.FactoryDefaultCVIndex # 0 /\ ready
    THEN LET idx == n.FactoryDefaultCVIndex - 1
         IN  DccSetCV([n EXCEPT !.FactoryDefaultCVIndex = idx,
                                !.issued = Append(@, idx)],
                      FactoryDefaultCVs[idx + 1].CV, FactoryDefaultCVs[idx + 1].Value)
    ELSE n

\* The NmraDcc build is powered with one of stores in the library's CV store,
\* the other decoders are not.
NmraPowerUp(stores) ==
  /\ ApPowerUp({ErasedEEPROM})
  /\ twin = Unpowered
  /\ nmra \in {NmraConstruction(s) : s \in stores}

InitNmra == NmraPowerUp({NmraFactoryStore, NmraProgrammedStore})

\* setup()
NmraSetup ==
  /\ nmra.pc = "boot"
  /\ nmra' = [updateLightCache(readCvsToCache(DccInit(resetFctsToDefault(nmra))))
                EXCEPT !.pc = "run", !.recomputed = FALSE]
  /\ UNCHANGED apVars

\* One loop() iteration: Dcc.process() on the packet p, the four analogWrite()
\* calls at millis() = t, the factory default step with Dcc.isSetCVReady()
\* returning ready.
NmraLoop(p, ready, t) ==
  /\ nmra.pc = "run"
  /\ p.kind # "none" => nmra.nPackets < MaxEvents
  /\ \E n1 \in {DccProcess([nmra EXCEPT !.call = <<"none">>, !.recomputed = FALSE,
                                        !.nPackets = IF p.kind = "none" THEN @ ELSE @ + 1],
                           p)} :
       \E d \in DutyOutcomes(n1.cvsCache, n1.lightCache, t) :
         nmra' = FactoryDefaultStep(
                   [n1 EXCEPT !.now = t, !.duty = d,
                              !.analogWrites = [l \in Lights |-> 1]], ready)
  /\ UNCHANGED apVars

NmraLoopIdle == \E ready \in BOOLEAN, t \in Times : NmraLoop(NoPacket, ready, t)

NmraLoopSpeed == \E p \in SpeedPackets, ready \in BOOLEAN : NmraLoop(p, ready, nmra.now)

NmraLoopFunc == \E p \in FuncPackets, ready \in BOOLEAN : NmraLoop(p, ready, nmra.now)

NmraLoopCvWrite ==
  \E p \in CvWritePackets, ready \in BOOLEAN : NmraLoop(p, ready, nmra.now)

NmraLoopCvReset ==
  \E p \in CvResetPackets, ready \in BOOLEAN : NmraLoop(p, ready, nmra.now)

NextNmra ==
  \/ NmraSetup
  \/ NmraLoopIdle
  \/ NmraLoopSpeed
  \/ NmraLoopFunc
  \/ NmraLoopCvWrite

\* The NmraDcc build of a programmed decoder under speed, function group and
\* CV write packets.
SpecNmra == InitNmra /\ [][NextNmra]_vars

InitNmraReset == NmraPowerUp(NmraStores)

NextNmraReset ==
  \/ NmraSetup
  \/ NmraLoopIdle
  \/ NmraLoopFunc
  \/ NmraLoopCvReset

\* A loop() iteration in which a factory default is pending and
\* Dcc.isSetCVReady() returns true.
NmraLoopReady ==
  /\ nmra.pc = "run"
  /\ nmra.FactoryDefaultCVIndex # 0
  /\ \E t \in Times : NmraLoop(NoPacket, TRUE, t)

\* setup() returns, loop() runs again and again, and Dcc.isSetCVReady() is
\* true infinitely often.
SpecNmraReset ==
  /\ InitNmraReset
  /\ [][NextNmraReset]_vars
  /\ WF_vars(NmraSetup)
  /\ WF_vars(NmraLoopReady)

\* ------------------------------------------- two decoders, the same events
\* setup() of the second decoder.
TwinSetup ==
  \E s \in {setupCVs(twin.EEPROM)} :
    \E g \in updateLightsStateCache(s.cache, updateFctsStateCache(locoCmd), locoCmd) :
      twin' = [EEPROM |-> s.eeprom, cvsCache |-> s.cache,
               fctStateCache |-> updateFctsStateCache(locoCmd),
               lightStateCache |-> g, acks |-> 0]

\* loop() of the second decoder on the loco command this decoder handles.
TwinLocoCmd ==
  \E g \in updateLightsStateCache(twin.cvsCache, updateFctsStateCache(locoCmd'),
                                  locoCmd') :
    twin' = [twin EXCEPT !.fctStateCache = updateFctsStateCache(locoCmd'),
                         !.lightStateCache = g, !.acks = 0]

\* loop() of the second decoder on the CV request this decoder handles, the
\* request reaching it as op_mode.
TwinCvCmd(op_mode) ==
  \E r \in {cvOperation(op_mode, cvCmd', twin.cvsCache, twin.EEPROM)} :
    IF r.refresh
      THEN \E g \in updateLightsStateCache(r.cache, updateFctsStateCache(locoCmd),
                                           locoCmd) :
             twin' = [EEPROM |-> r.eeprom, cvsCache |-> r.cache,
                      fctStateCache |-> updateFctsStateCache(locoCmd),
                      lightStateCache |-> g, acks |-> r.acks]
      ELSE twin' = [twin EXCEPT !.EEPROM = r.eeprom, !.cvsCache = r.cache,
                                !.acks = r.acks]

\* Both decoders power up on the same EEPROM contents.
InitModes ==
  /\ ApPowerUp(InitEEPROMs)
  /\ nmra = Unpowered
  /\ twin = TwinConstruction(EEPROM)

SetupBoth == SetupBody /\ TwinSetup /\ UNCHANGED nmra

LoopLocoCmdBoth ==
  /\ LoopLocoCmdBody([t \in LocoCmdTypes |-> LocoUpdates(t, locoCmd)])
  /\ TwinLocoCmd
  /\ UNCHANGED nmra

\* The same CV request, in service mode to this decoder and on the main track
\* to the second one.
LoopCvCmdBoth ==
  /\ LoopCvCmdBody("SmCmd", OPModeServiceMode, CvRequests)
  /\ TwinCvCmd(OPModeProgramOnMain)
  /\ UNCHANGED nmra

NextModes ==
  \/ SetupBoth
  \/ LoopNoInput
  \/ LoopLocoCmdBoth
  \/ LoopCvCmdBoth

\* Two decoders from the same initial state under the same events, every CV
\* request in service mode for the first and on the main track for the second.
SpecModes == InitModes /\ [][NextModes]_vars

\* ================================================================== claims
\* The step is a loop() iteration that handled a CV access request.
CvStep == nEvents' = nEvents + 1 /\ cmdType' \in {"MyPomCmd", "SmCmd"}

\* The last bus event was a CV access request.
LastWasCvAccess == nEvents > 0 /\ cmdType \in {"MyPomCmd", "SmCmd"}

\* The documented factory default table: CV1 = 3, CV7 = 1, CV8 = 13, the four
\* lighting quintuples at 50 + 10 * channel, zero elsewhere.
DocumentedQuintuples ==
  <<<<255, 0, 0, 0, 1>>, <<150, 1, 0, 0, 2>>, <<150, 2, 0, 0, 0>>, <<150, 3, 0, 0, 0>>>>

DocumentedDefaults ==
  [i \in 0..99 |->
     IF i = 1 THEN 3
     ELSE IF i = 7 THEN 1
     ELSE IF i = 8 THEN 13
     ELSE IF i >= 50 /\ i < 90 /\ i % 10 < 5
       THEN DocumentedQuintuples[((i - 50) \div 10) + 1][(i % 10) + 1]
     ELSE 0]

\* The state of function f by the DCC function group convention, from the
\* bitmasks the decoder holds.
FunctionOn(loco, f) ==
  IF f = 0 THEN BitOf(loco.F0F4, 4) = 1
  ELSE IF f <= 4 THEN BitOf(loco.F0F4, f - 1) = 1
  ELSE IF f <= 8 THEN BitOf(loco.F5F8, f - 5) = 1
  ELSE IF f <= 12 THEN BitOf(loco.F9F12, f - 9) = 1
  ELSE IF f <= 20 THEN BitOf(loco.F13F20, f - 13) = 1
  ELSE BitOf(loco.F21F28, f - 21) = 1

\* The gate formula of the Light Rule Evaluator for channel c, a control
\* function outside 0..28 counting as always active.
GateFormula(cache, loco, c) ==
  LET fn == cache[51 + 10 * c]
      dir == cache[52 + 10 * c]
      spd == cache[53 + 10 * c]
  IN  /\ (fn = 31 \/ fn \notin 0..28 \/ FunctionOn(loco, fn))
      /\ (dir = 0 \/ (dir = 1 /\ loco.forward) \/ (dir = 2 /\ ~loco.forward))
      /\ (spd = 0 \/ (spd = 1 /\ loco.speed > 0))

\* C1: once setup() has completed, every cached CV byte equals the byte at the
\* same address in persistent storage (cvsCache[i] = EEPROM[i], i in 0..99).
C1_CacheEqualsEEPROM ==
  pc = "run" => \A i \in 0..99 : cvsCache[i] = EEPROM[i]

\* C2: no CV access request addressed to CV7 changes the stored value of CV7,
\* in the cache or in persistent storage.
C2_CV7ReadOnly ==
  [][(CvStep /\ cvCmd'.number = 7)
       => (cvsCache'[7] = cvsCache[7] /\ EEPROM'[7] = EEPROM[7])]_vars

\* C3: a write-byte of 8 to CV8 leaves the cache and persistent storage equal
\* to the documented factory default table, whatever they held before; a
\* write-byte of any other value to CV8 leaves both unchanged.
C3_ManufacturerIdWrite ==
  [][(CvStep /\ cvCmd'.operation = "writeByte" /\ cvCmd'.number = 8)
       => IF cvCmd'.value = 8
            THEN cvsCache' = DocumentedDefaults /\ EEPROM' = DocumentedDefaults
            ELSE cvsCache' = cvsCache /\ EEPROM' = EEPROM]_vars

\* C3 witness: the reset was triggered on a decoder programmed away from the
\* defaults (its address was 5) and the store now holds the default table.
C3_Witness ==
  /\ LastWasCvAccess
  /\ cvCmd.operation = "writeByte" /\ cvCmd.number = 8 /\ cvCmd.value = 8
  /\ myAddress = 5
  /\ cvsCache = DocumentedDefaults /\ EEPROM = DocumentedDefaults

\* C4: a CV access request of any kind and mode whose CV number is >= 100 is
\* dropped: cache, persistent storage, function states and gates are
\* unchanged, nothing is written and no acknowledgement is emitted.
C4_OutOfRangeDropped ==
  [][(CvStep /\ cvCmd'.number >= 100)
       => /\ cvsCache' = cvsCache
          /\ EEPROM' = EEPROM
          /\ fctStateCache' = fctStateCache
          /\ lightStateCache' = lightStateCache
          /\ acks' = 0
          /\ eepromWrites' = 0]_vars

\* C4 witness: a service-mode write-byte to CV 100 has been handled.
C4_Witness ==
  /\ nEvents > 0 /\ cmdType = "SmCmd"
  /\ cvCmd.number >= 100 /\ cvCmd.operation = "writeByte"

\* C5: an acknowledgement is emitted only while handling a CV access request
\* in service mode: never for a programming-on-main request, never for a
\* speed, function group, reset or emergency stop event.
C5_AckOnlyInServiceMode ==
  acks > 0 => (nEvents > 0 /\ cmdType = "SmCmd")

\* C5 witness: a service-mode request has been acknowledged.
C5_Witness == acks = 1 /\ cmdType = "SmCmd" /\ cvCmd.operation = "verifyByte"

\* C6: gate evaluation never indexes the function-state array outside 0..28.
C6_FctIndexInBounds == \A i \in fctIndexes : i \in 0..28

\* C7: a channel whose gate is true and whose effect CV holds a value other
\* than 0, 1 or 2 is rendered with duty 0.
C7_UnknownEffectIsOff ==
  \A c \in 0..3 :
    (pc = "run" /\ lightStateCache[c] /\ cvsCache[54 + 10 * c] \notin {0, 1, 2})
      => duty[c] = 0

\* C8: wherever loop() renders, each channel's cached gate equals the gate
\* formula evaluated on the current CV cache, function bits, speed and
\* direction.
C8_GatesFresh ==
  pc = "run" => \A c \in 0..3 : lightStateCache[c] = GateFormula(cvsCache, locoCmd, c)

\* C9: for every address in 0..99 other than 7 and 8, a write-byte(addr, v) in
\* either mode leaves v in the cache and in persistent storage, and a
\* service-mode verify-byte(addr, v) that follows immediately is acknowledged.
C9_WriteReadRoundTrip ==
  [][/\ (CvStep /\ cvCmd'.operation = "writeByte"
           /\ cvCmd'.number \in (0..99) \ {7, 8})
          => (cvsCache'[cvCmd'.number] = cvCmd'.value
                /\ EEPROM'[cvCmd'.number] = cvCmd'.value)
     /\ (/\ LastWasCvAccess /\ cvCmd.operation = "writeByte"
         /\ cvCmd.number \in (0..99) \ {7, 8}
         /\ CvStep /\ cmdType' = "SmCmd" /\ cvCmd'.operation = "verifyByte"
         /\ cvCmd'.number = cvCmd.number /\ cvCmd'.value = cvCmd.value)
          => acks' = 1]_vars

\* C9 witness: CV51 = 29 was written (no power-up table holds it) and the
\* service-mode verify of 29 that followed was acknowledged.
C9_Witness ==
  /\ nEvents = 2 /\ cmdType = "SmCmd" /\ cvCmd.operation = "verifyByte"
  /\ cvCmd.number = 51 /\ cvCmd.value = 29
  /\ cvsCache[51] = 29 /\ EEPROM[51] = 29 /\ acks = 1

\* C10: setup() never leaves the store half-initialized: with the marker
\* (EEPROM address 8) equal to 13 the cache equals the persisted bytes and
\* storage is not written, otherwise the cache equals the factory default
\* table and the persisted bytes equal the cache; the gates are computed from
\* the resulting cache, and nothing is rendered before.
C10_SetupStore ==
  [][(pc = "boot" /\ pc' = "run")
       => /\ IF EEPROM[8] = 13
               THEN /\ \A i \in 0..99 : cvsCache'[i] = EEPROM[i]
                    /\ EEPROM' = EEPROM
                    /\ eepromWrites' = 0
               ELSE /\ cvsCache' = DocumentedDefaults
                    /\ \A i \in 0..99 : EEPROM'[i] = cvsCache'[i]
          /\ \A c \in 0..3 :
               cvsCache'[51 + 10 * c] \in (0..28) \cup {31}
                 => lightStateCache'[c] = GateFormula(cvsCache', locoCmd', c)
          /\ duty' = duty]_vars

\* C10 witness: setup() has run on an EEPROM without the marker and rewrote it.
C10_Witness ==
  pc = "run" /\ nEvents = 0 /\ eepromWrites = 100 /\ cvsCache = DocumentedDefaults

\* C11: a value stored by an in-range write-byte to a CV other than 7 and 8
\* survives a power cycle: with no later request addressing that CV and no
\* factory reset by CV8, once setup() has run again on the same EEPROM the
\* cache holds that value at that address.
C11_WriteSurvivesPowerCycle ==
  (restarted /\ pc = "run") => \A w \in durable : cvsCache[w[1]] = w[2]

\* C11 witness: CV51 = 29 was written (no power-up table holds it), another
\* bus event followed, then the power cycle; setup() has run again.
C11_Witness ==
  /\ restarted /\ pc = "run" /\ nEvents = 2 /\ cmdType = "Unknown"
  /\ durable = {<<51, 29>>} /\ cvsCache[51] = 29

\* C12: for every channel, the gate is false whenever the control-function CV
\* is a tracked function number (0..28) and that function is off, whatever
\* the direction, the speed and the two sensitivity values are.
C12_FunctionOffGateOff ==
  pc = "run" =>
    \A c \in 0..3 :
      (cvsCache[51 + 10 * c] \in 0..28 /\ ~FunctionOn(locoCmd, cvsCache[51 + 10 * c]))
        => ~lightStateCache[c]

\* C12 witness: channel 2 is controlled by F28 and lit in reverse only; the
\* decoder runs in reverse, F1 is on and F28 is off: the gate is false.
C12_Witness ==
  /\ pc = "run" /\ nEvents = 2
  /\ cvsCache[71] = 28 /\ cvsCache[72] = 2 /\ cvsCache[73] = 0
  /\ ~locoCmd.forward /\ locoCmd.F0F4 = 1 /\ locoCmd.F21F28 = 0
  /\ ~lightStateCache[2]

\* C13: for every channel c in 0..3 whose control function is in range (0..28
\* or 31), the cached gate is exactly (ctrl_fn = 31 or function_state[ctrl_fn])
\* and (dir_sens = 0 or (dir_sens = 1 and forward) or (dir_sens = 2 and
\* reverse)) and (speed_sens = 0 or (speed_sens = 1 and speed > 0)), the CVs of
\* channel c read at 50 + 10 * c + offset.
C13_GateFormula ==
  pc = "run" =>
    \A c \in 0..3 :
      LET ctrl_fn == cvsCache[50 + 10 * c + 1]
          dir_sens == cvsCache[50 + 10 * c + 2]
          speed_sens == cvsCache[50 + 10 * c + 3]
      IN  ctrl_fn \in (0..28) \cup {31} =>
            (lightStateCache[c] <=>
               /\ (ctrl_fn = 31 \/ fctStateCache[ctrl_fn])
               /\ (dir_sens = 0 \/ (dir_sens = 1 /\ locoCmd.forward)
                     \/ (dir_sens = 2 /\ ~locoCmd.forward))
               /\ (speed_sens = 0 \/ (speed_sens = 1 /\ locoCmd.speed > 0)))

\* C13 witness: channel 3 is controlled by F28, lit in reverse and only when
\* moving; the decoder moves in reverse with F28 on: the gate is true.
C13_Witness ==
  /\ pc = "run" /\ nEvents = 2
  /\ cvsCache[81] = 28 /\ cvsCache[82] = 2 /\ cvsCache[83] = 1
  /\ ~locoCmd.forward /\ locoCmd.speed = 50 /\ locoCmd.F21F28 = 128
  /\ lightStateCache[3]

\* C14: a bit-manipulation write to an in-range CV with bit position p in 0..7
\* and bit value b changes no bit of that CV other than bit p, and the
\* service-mode bit-manipulation verify of the same CV, p and b that follows
\* immediately is acknowledged, whatever the CV held before.
C14_BitWriteThenVerify ==
  [][/\ (CvStep /\ cvCmd'.operation = "bitManipulation" /\ cvCmd'.writecmd
           /\ cvCmd'.number < 100)
          => \A q \in (0..7) \ {cvCmd'.bitposition} :
               BitOf(cvsCache'[cvCmd'.number], q) = BitOf(cvsCache[cvCmd'.number], q)
     /\ (/\ LastWasCvAccess /\ cvCmd.operation = "bitManipulation" /\ cvCmd.writecmd
         /\ cvCmd.number < 100
         /\ CvStep /\ cmdType' = "SmCmd" /\ cvCmd'.operation = "bitManipulation"
         /\ ~cvCmd'.writecmd /\ cvCmd'.number = cvCmd.number
         /\ cvCmd'.bitposition = cvCmd.bitposition /\ cvCmd'.bitvalue = cvCmd.bitvalue)
          => acks' = 1]_vars

\* C14 witness: CV99 held 255, bit 7 was cleared on the main (the CV now holds
\* 127) and the service-mode verify of bit 7 = 0 was acknowledged.
C14_Witness ==
  /\ nEvents = 2 /\ cmdType = "SmCmd" /\ cvCmd.operation = "bitManipulation"
  /\ ~cvCmd.writecmd /\ cvCmd.number = 99 /\ cvCmd.bitposition = 7
  /\ cvCmd.bitvalue = 0 /\ EEPROM[99] = 255 /\ cvsCache[99] = 127 /\ acks = 1

\* The step is a loop() iteration: it ends with the rendering of the four
\* channels at millis() = now'.
LoopStep == pc = "run" /\ pc' = "run"

\* Channel c is rendered with its gate true and the effect code e.
RenderedOn(c, e) == lightStateCache'[c] /\ cvsCache'[54 + 10 * c] = e

\* C15 (as stated): strobe effect with gate true and a brightness whose gamma
\* value is nonzero: with t = now mod 150 the duty is nonzero while t is
\* inside the window 150/12 = 12.5 ms and zero after it; at t = 0, 12, 13, 149
\* it is nonzero, nonzero, zero, zero.
C15_StrobeWindowAsStated ==
  [][LoopStep =>
       \A c \in 0..3 :
         (RenderedOn(c, 1) /\ Gamma(cvsCache'[50 + 10 * c]) # 0)
           => /\ (duty'[c] # 0 <=> 2 * (now' % 150) < 25)
              /\ (now' % 150 \in {0, 12} => duty'[c] # 0)
              /\ (now' % 150 \in {13, 149} => duty'[c] = 0)]_vars

\* C15 (amended): strobe effect with gate true and a brightness whose gamma
\* value is nonzero: with t = now mod 150 the duty is nonzero for t in 0..11
\* (t < 150 div 12 = 12) and zero for t in 12..149; at t = 0, 11, 12, 13, 149
\* it is nonzero, nonzero, zero, zero, zero.
C15_StrobeWindow ==
  [][LoopStep =>
       \A c \in 0..3 :
         (RenderedOn(c, 1) /\ Gamma(cvsCache'[50 + 10 * c]) # 0)
           => /\ (duty'[c] # 0 <=> now' % 150 \in 0..11)
              /\ (now' % 150 \in {0, 11} => duty'[c] # 0)
              /\ (now' % 150 \in {12, 13, 149} => duty'[c] = 0)]_vars

\* C15 witness: channel 1 strobes at brightness 28 (gamma 1); at millis() = 161
\* (t = 11, in the second period) its duty is 1.
C15_Witness ==
  /\ pc = "run" /\ lightStateCache[1] /\ cvsCache[64] = 1 /\ cvsCache[60] = 28
  /\ now = 161 /\ duty[1] = 1

\* C16: rotating effect with gate true and the 600 ms period: with
\* t = now mod 600 the duty is gamma(floor(2 * brightness * t / 600)) for
\* t < 300 and gamma(floor(2 * brightness * (600 - t) / 600)) for t >= 300; at
\* brightness 200 it is gamma(0) = 0 at t = 0, gamma(100) at t = 150 and
\* gamma(200) at t = 300.
C16_RotatingWave ==
  [][LoopStep =>
       \A c \in 0..3 :
         RenderedOn(c, 2) =>
           LET brightness == cvsCache'[50 + 10 * c]
               t == now' % 600
           IN  /\ t < 300 => duty'[c] = Gamma((2 * brightness * t) \div 600)
               /\ t >= 300 => duty'[c] = Gamma((2 * brightness * (600 - t)) \div 600)
               /\ (brightness = 200 /\ t = 0) => (duty'[c] = 0 /\ Gamma(0) = 0)
               /\ (brightness = 200 /\ t = 150) => duty'[c] = Gamma(100)
               /\ (brightness = 200 /\ t = 300) => duty'[c] = Gamma(200)]_vars

\* C16 witness: channel 3 rotates at brightness 200; at millis() = 1050
\* (t = 450, the falling half of the second period) its duty is gamma(100).
C16_Witness ==
  /\ pc = "run" /\ lightStateCache[3] /\ cvsCache[84] = 2 /\ cvsCache[80] = 200
  /\ now = 1050 /\ duty[3] = 19

\* C17: steady effect (code 0): with gate true valueLight returns
\* gamma(brightness) at every sampled time, for every brightness 0..255 and
\* every channel; with gate false it returns 0 regardless of time.
C17_Steady ==
  [][LoopStep =>
       \A c \in 0..3 :
         cvsCache'[54 + 10 * c] = 0 =>
           duty'[c] = IF lightStateCache'[c] THEN gamma[cvsCache'[50 + 10 * c] + 1] ELSE 0]_vars

\* C17 witness: channel 2 is steady at brightness 254 with its gate true; at
\* millis() = 463000 its duty is gamma(254) = 252.
C17_Witness ==
  /\ pc = "run" /\ lightStateCache[2] /\ cvsCache[74] = 0 /\ cvsCache[70] = 254
  /\ now = 463000 /\ duty[2] = 252

\* Channel 0 is configured ctrl_fn = 31, dir_sens = 0, speed_sens = 1.
MovingOnlyChannel0 == cvsCache[51] = 31 /\ cvsCache[52] = 0 /\ cvsCache[53] = 1

\* The step is a loop() iteration that handled a speed or function group
\* event for this decoder.
LocoStep == nEvents' = nEvents + 1 /\ cmdType' \in LocoCmdTypes

\* C18: with channel 0 configured ctrl_fn = 31, dir_sens = 0, speed_sens = 1:
\* after a speed event with speed 0 and direction forward the gate of channel 0
\* is false and its rendered duty is 0; after a speed event with speed 50 the
\* gate is true; and a true gate stays true across function group events, the
\* speed staying above 0.
C18_MovingOnlyScenario ==
  [][(MovingOnlyChannel0 /\ LocoStep) =>
       /\ (cmdType' = "MyLocoSpeedCmd" /\ locoCmd'.speed = 0 /\ locoCmd'.forward)
            => (~lightStateCache'[0] /\ duty'[0] = 0)
       /\ (cmdType' = "MyLocoSpeedCmd" /\ locoCmd'.speed = 50) => lightStateCache'[0]
       /\ (cmdType' # "MyLocoSpeedCmd" /\ locoCmd.speed > 0 /\ lightStateCache[0])
            => (locoCmd'.speed > 0 /\ lightStateCache'[0] /\ duty'[0] # 0)]_vars

\* C18 witness: the decoder powered up at rest (speed 0, forward, gate false),
\* a speed event set speed 50, then the F0-F4 group event switched F0 on: the
\* gate of channel 0 is true and the channel is lit.
C18_Witness ==
  /\ MovingOnlyChannel0 /\ nEvents = 2 /\ cmdType = "MyLocoF0F4Cmd"
  /\ locoCmd.speed = 50 /\ locoCmd.F0F4 = 16 /\ lightStateCache[0] /\ duty[0] = 255

\* C19: in service mode every in-range write-byte request emits exactly one
\* acknowledgement: the writes that store, the writes that store nothing (any
\* write to CV7, a write to CV8 of a value other than 8) and the write of 8 to
\* CV8 that triggers the factory reset.
C19_ServiceModeWriteAckedOnce ==
  (/\ nEvents > 0 /\ cmdType = "SmCmd" /\ cvCmd.operation = "writeByte"
   /\ cvCmd.number < 100)
    => acks = 1

\* C19 witness: a service-mode write-byte to CV7, which stores nothing (CV7
\* still holds 1), was acknowledged once.
C19_Witness ==
  /\ nEvents > 0 /\ cmdType = "SmCmd" /\ cvCmd.operation = "writeByte"
  /\ cvCmd.number = 7 /\ cvCmd.value = 29 /\ cvsCache[7] = 1 /\ acks = 1

\* C20: an in-range verify-byte request emits an acknowledgement if and only
\* if the stored value equals the request value and the mode is service mode,
\* and in every case it leaves the CV cache and persistent storage unchanged.
C20_VerifyByteFrame ==
  [][(CvStep /\ cvCmd'.operation = "verifyByte" /\ cvCmd'.number < 100)
       => /\ acks' = IF cvsCache[cvCmd'.number] = cvCmd'.value /\ cmdType' = "SmCmd"
                       THEN 1 ELSE 0
          /\ cvsCache' = cvsCache
          /\ EEPROM' = EEPROM
          /\ eepromWrites' = 0]_vars

\* C20 witness: a service-mode verify-byte of 29 on CV51, which holds another
\* value, was handled without an acknowledgement.
C20_Witness ==
  /\ nEvents > 0 /\ cmdType = "SmCmd" /\ cvCmd.operation = "verifyByte"
  /\ cvCmd.number = 51 /\ cvCmd.value = 29 /\ cvsCache[51] # 29 /\ acks = 0


\* C21: every loop() iteration processes at most one bus event and then makes
\* exactly one analogWrite() call per light, each with a value in 0..255,
\* whether or not an event arrived.
C21_OnePushPerIteration ==
  [][LoopStep =>
       /\ nEvents' \in {nEvents, nEvents + 1}
       /\ \A c \in Lights : analogWrites'[c] = 1 /\ duty'[c] \in 0..255]_vars

\* An iteration that handled a function group command has written the four
\* outputs, light 0 at full brightness.
C21_Witness ==
  /\ pc = "run"
  /\ nEvents > 0
  /\ cmdType = "MyLocoF0F4Cmd"
  /\ \A c \in Lights : analogWrites[c] = 1
  /\ duty[0] = 255

\* The DCC convention: the group byte and the bit of function f.
DccGroupOf(f) ==
  CASE f \in 0..4 -> "F0F4" [] f \in 5..8 -> "F5F8" [] f \in 9..12 -> "F9F12"
    [] f \in 13..20 -> "F13F20" [] OTHER -> "F21F28"

DccBitOf(f) ==
  CASE f = 0 -> 4 [] f \in 1..4 -> f - 1 [] f \in 5..8 -> f - 5
    [] f \in 9..12 -> f - 9 [] f \in 13..20 -> f - 13 [] OTHER -> f - 21

\* The group byte a command type updates.
DccGroupOfCmd(type) ==
  CASE type = "MyLocoF0F4Cmd" -> "F0F4" [] type = "MyLocoF5F8Cmd" -> "F5F8"
    [] type = "MyLocoF9F12Cmd" -> "F9F12" [] type = "MyLocoF13F20Cmd" -> "F13F20"
    [] type = "MyLocoF21F28Cmd" -> "F21F28" [] OTHER -> "none"

\* C22: after a loco command the function-state cache holds, for F0, bit 4 of
\* the F0F4 byte, for F1..F4 its bits 0..3, and for function N + 5, N + 9,
\* N + 13, N + 21 bit N of the F5F8, F9F12, F13F20, F21F28 byte; a command
\* that updates one group's byte changes no function state of another group.
C22_GroupSlices ==
  [][LocoStep =>
       \A f \in 0..28 :
         /\ fctStateCache'[f] = (BitOf(locoCmd'[DccGroupOf(f)], DccBitOf(f)) = 1)
         /\ DccGroupOf(f) # DccGroupOfCmd(cmdType') =>
              fctStateCache'[f] = fctStateCache[f]]_vars

\* F0 was switched on by an F0F4 command, then an F13F20 command with the
\* byte 129 switched on F13 and F20 and nothing else.
C22_Witness ==
  /\ nEvents = 2
  /\ cmdType = "MyLocoF13F20Cmd"
  /\ locoCmd.F13F20 = 129
  /\ locoCmd.F0F4 = 16
  /\ \A f \in 0..28 : fctStateCache[f] <=> f \in {0, 13, 20}

\* C23: the gamma table has 256 entries, is monotone non-decreasing, and maps
\* 0 to 0 and 255 to 255: the duty of a steady channel with its gate true is
\* the table entry of its brightness b, no entry below b is greater, no entry
\* above b is smaller, and the duty is 0 at b = 0 and 255 at b = 255.
C23_GammaTable ==
  /\ Len(gamma) = 256
  /\ \A c \in Lights :
       LET b == cvsCache[50 + 10 * c]
       IN  (pc = "run" /\ analogWrites[c] = 1 /\ lightStateCache[c]
              /\ cvsCache[54 + 10 * c] = 0) =>
             /\ duty[c] = gamma[b + 1]
             /\ \A x \in 0..b : gamma[x + 1] <= duty[c]
             /\ \A x \in b..255 : duty[c] <= gamma[x + 1]
             /\ b = 0 => duty[c] = 0
             /\ b = 255 => duty[c] = 255

\* Channel 1 is steady at brightness 255 with its gate true and is rendered
\* with duty 255.
C23_Witness ==
  /\ pc = "run" /\ analogWrites[1] = 1 /\ lightStateCache[1]
  /\ cvsCache[64] = 0 /\ cvsCache[60] = 255 /\ duty[1] = 255

\* C26: valueLight returns 0 for a channel whose gate is false, whatever its
\* brightness and effect CVs hold and whatever the time is: every loop()
\* iteration writes duty 0 to a channel whose gate is false, also when the
\* iteration handled a write to the brightness or effect CV.
C26_GateOffDutyZero ==
  (pc = "run" /\ \A l \in Lights : analogWrites[l] = 1) =>
     \A c \in Lights : ~lightStateCache[c] => duty[c] = 0

\* Channel 0 has its gate false (F0 is off); a write-byte request stored 29,
\* an effect code the renderer does not know, in its effect CV, and the
\* channel was rendered with duty 0.
C26_Witness ==
  /\ pc = "run" /\ LastWasCvAccess /\ cvCmd.operation = "writeByte"
  /\ cvCmd.number = 54 /\ cvCmd.value = 29 /\ cvsCache[54] = 29
  /\ cvsCache[50] = 255
  /\ ~lightStateCache[0] /\ analogWrites[0] = 1 /\ duty[0] = 0

\* C28: while loop() runs, the address given to the library for matching loco
\* packets equals the primary address CV in the cache, also after a write-byte
\* or bit-manipulation write to CV1 and after a factory reset.
C28_AddressFollowsCv1 ==
  pc = "run" => myAddress = cvsCache[CV1PrimaryAddress]

\* C29: once setup() has completed, EEPROM address 8 holds the marker 13 in
\* every state, whatever CV requests are handled, and a power cycle finds it
\* there.
C29_MarkerPersists ==
  (pc = "run" \/ restarted) => EEPROM[CV8ManufacturerIDNumber] = 13

\* A bit-manipulation write cleared bit 2 of CV8: the cache holds 9, the
\* EEPROM still holds 13.
C29_Witness ==
  /\ pc = "run" /\ LastWasCvAccess /\ cvCmd.number = 8
  /\ cvCmd.operation = "bitManipulation" /\ cvCmd.writecmd
  /\ cvsCache[8] = 9 /\ EEPROM[8] = 13

\* The gate formula on the NmraDcc build's state: the control function is 31
\* or outside fctsCache (taken as always active) or switched on, the
\* direction sensitivity is met, the speed sensitivity is met (the library
\* reports speed 0 and 1 for a decoder at rest).
NmraGateFormula(cvs, fcts, speed, dir, c) ==
  LET fn == cvs[51 + 10 * c]
      ds == cvs[52 + 10 * c]
      ss == cvs[53 + 10 * c]
  IN  /\ (fn \notin 0..4 \/ fcts[fn])
      /\ (ds = 0 \/ (ds = 1 /\ dir = "DCC_DIR_FWD") \/ (ds = 2 /\ dir = "DCC_DIR_REV"))
      /\ (ss = 0 \/ (ss = 1 /\ speed > 1))

\* The step is a loop() iteration in which Dcc.process() called
\* notifyCVChange() for one of the CVs 51..53 + 10 * channel.
NmraGateCvChanged ==
  /\ nmra'.call[1] = "notifyCVChange"
  /\ nmra'.call[2] \in {b + 10 * c : b \in 51..53, c \in Lights}

\* C24: in the NmraDcc build the gates are recomputed whenever a CV changes:
\* after notifyCVChange() for a lighting CV, at the rendering that follows,
\* lightCache[ch] equals the gate formula on the updated cvsCache.
C24_GatesFollowCvChange ==
  [][NmraGateCvChanged =>
       \A c \in Lights :
         nmra'.lightCache[c] =
           NmraGateFormula([nmra.cvsCache EXCEPT ![nmra'.call[2]] = nmra'.call[3]],
                           nmra.fctsCache, nmra.currentSpeed, nmra.currentDirection,
                           c)]_vars

\* The step is a loop() iteration in which Dcc.process() called notifyDccSpeed().
NmraSpeedCall == nmra'.call[1] = "notifyDccSpeed"

\* C27: notifyDccSpeed() called with the speed, direction and speed steps it
\* already holds leaves currentSpeed, currentDirection, currentSpeedSteps and
\* lightCache as they are and does not run updateLightCache(); called with a
\* differing argument it stores all three and recomputes the gate of every
\* light.
C27_SpeedChangeDetection ==
  [][NmraSpeedCall =>
       LET Speed == nmra'.call[2]
           Dir == nmra'.call[3]
           SpeedSteps == nmra'.call[4]
       IN  IF Speed = nmra.currentSpeed /\ Dir = nmra.currentDirection
                /\ SpeedSteps = nmra.currentSpeedSteps
             THEN /\ nmra'.currentSpeed = nmra.currentSpeed
                  /\ nmra'.currentDirection = nmra.currentDirection
                  /\ nmra'.currentSpeedSteps = nmra.currentSpeedSteps
                  /\ nmra'.lightCache = nmra.lightCache
                  /\ ~nmra'.recomputed
             ELSE /\ nmra'.currentSpeed = Speed
                  /\ nmra'.currentDirection = Dir
                  /\ nmra'.currentSpeedSteps = SpeedSteps
                  /\ nmra'.recomputed
                  /\ \A c \in Lights :
                       nmra'.lightCache[c] =
                         NmraGateFormula(nmra.cvsCache, nmra.fctsCache, Speed, Dir, c)]_vars

\* A second speed packet repeated speed 50, reverse, 28 steps: nothing was
\* recomputed, and light 0 (always active, reverse only) is on.
C27_Witness ==
  /\ nmra.pc = "run" /\ nmra.nPackets = 2
  /\ nmra.call = <<"notifyDccSpeed", 50, "DCC_DIR_REV", "SPEED_STEP_28">>
  /\ ~nmra.recomputed
  /\ nmra.currentSpeed = 50 /\ nmra.currentDirection = "DCC_DIR_REV"
  /\ nmra.currentSpeedSteps = "SPEED_STEP_28"
  /\ nmra.cvsCache[51] = 31 /\ nmra.cvsCache[52] = 2 /\ nmra.lightCache[0]

\* C25: FactoryDefaultCVIndex stays within 0..23 and each loop() iteration
\* leaves it or lowers it by one, from the 23 that a request sets; once
\* notifyCVResetFactoryDefault() has been called the loop eventually brings
\* the index to 0, having passed every entry of FactoryDefaultCVs to
\* Dcc.setCV() exactly once, from the last entry down to the first.
C25_FactoryResetCompletes ==
  /\ [](nmra.FactoryDefaultCVIndex \in 0..23)
  /\ [][nmra.pc = "run" =>
          LET from == IF nmra'.call[1] = "notifyCVResetFactoryDefault"
                        THEN 23 ELSE nmra.FactoryDefaultCVIndex
          IN  \/ /\ nmra'.FactoryDefaultCVIndex = from
                 /\ nmra'.issued = IF from = 23 THEN <<>> ELSE nmra.issued
              \/ /\ nmra'.FactoryDefaultCVIndex = from - 1
                 /\ nmra'.issued = Append(IF from = 23 THEN <<>> ELSE nmra.issued,
                                          from - 1)]_vars
  /\ (nmra.FactoryDefaultCVIndex # 0) ~>
       (/\ nmra.FactoryDefaultCVIndex = 0
        /\ Len(nmra.issued) = 23
        /\ \A i \in 1..23 : nmra.issued[i] = 23 - i)

\* A CV write to CV8 requested the factory defaults of a programmed decoder;
\* the 23 entries were written and the library's store holds the table.
C25_Witness ==
  /\ nmra.pc = "run" /\ nmra.nPackets > 0
  /\ nmra.FactoryDefaultCVIndex = 0
  /\ Len(nmra.issued) = 23
  /\ \A k \in 1..23 : nmra.store[FactoryDefaultCVs[k].CV] = FactoryDefaultCVs[k].Value
  /\ nmra.cvsCache[52] = 0 /\ nmra.cvsCache[7] = 1

\* C30: a decoder that receives a sequence of CV requests in service mode and
\* one that receives the same sequence on the main track, from the same
\* initial state, have the same cvsCache, EEPROM, function states and gates
\* after every step.
C30_ModesAgree ==
  pc = "run" =>
    /\ twin.cvsCache = cvsCache
    /\ twin.EEPROM = EEPROM
    /\ twin.fctStateCache = fctStateCache
    /\ twin.lightStateCache = lightStateCache

\* C31: in the NmraDcc build, once setup() has completed, cvsCache[cv] equals
\* the value Dcc.getCV(cv) returns for every CV listed in FactoryDefaultCVs;
\* updateLightCache() does not modify cvsCache.
C31_CacheMatchesLibrary ==
  nmra.pc = "run" =>
    \A k \in 1..FactoryDefaultCVCount :
      nmra.cvsCache[FactoryDefaultCVs[k].CV] = nmra.store[FactoryDefaultCVs[k].CV]

\* C33: a channel whose direction sensitivity CV is outside {0, 1, 2} or whose
\* speed sensitivity CV is outside {0, 1} has its gate false and its duty 0 in
\* every state, whatever the function states, the speed and the direction are.
C33_UnknownSensitivityGateOff ==
  pc = "run" =>
    \A c \in Lights :
      (cvsCache[52 + 10 * c] \notin {0, 1, 2} \/ cvsCache[53 + 10 * c] \notin {0, 1})
        => (~lightStateCache[c] /\ duty[c] = 0)

\* Channel 2 is always active (control function 31) with the speed
\* sensitivity 2; the decoder moves forward at speed 50 and the channel,
\* rendered after the speed command, is dark.
C33_Witness ==
  /\ pc = "run" /\ nEvents > 0 /\ cmdType = "MyLocoSpeedCmd"
  /\ cvsCache[71] = 31 /\ cvsCache[72] = 0 /\ cvsCache[73] = 2
  /\ locoCmd.speed = 50 /\ locoCmd.forward
  /\ analogWrites[2] = 1 /\ ~lightStateCache[2] /\ duty[2] = 0

\* The gamma index of the rotating effect as computed before the cast to
\* 8 bits, at time t of the period.
RotatingIndex(brightness, t, period) ==
  IF t < period \div 2 THEN (2 * brightness * t) \div period
                       ELSE (2 * brightness * (period - t)) \div period

\* C32: in the rotating effect, for every brightness 0..255 and every time,
\* with the period 600 and with the earlier build's period 400, the computed
\* gamma index lies in 0..brightness (the cast to 8 bits does not wrap and the
\* table is not indexed past 255), the duty is the table entry at that index
\* and does not exceed gamma(brightness), and the duty at t equals the duty at
\* period - t for 0 < t < period.
C32_RotatingIndexInRange ==
  LET b == cvsCache[50]
      t600 == now % 600
      t400 == twin.now % 400
  IN  (pc = "run" /\ twin.pc = "run" /\ lightStateCache[0] /\ cvsCache[54] = 2) =>
        /\ RotatingIndex(b, t600, 600) \in 0..b
        /\ duty[0] = gamma[RotatingIndex(b, t600, 600) + 1]
        /\ duty[0] <= gamma[b + 1]
        /\ t600 > 0 => valueLight(cvsCache, lightStateCache, 0, 600 - t600) = {duty[0]}
        /\ RotatingIndex(b, t400, 400) \in 0..b
        /\ twin.duty[0] = gamma[RotatingIndex(b, t400, 400) + 1]
        /\ twin.duty[0] <= gamma[b + 1]
        /\ t400 > 0 =>
             earlierValueLight(cvsCache, lightStateCache, 0, 400 - t400) = {twin.duty[0]}

\* Light 0 rotates at brightness 255; at millis() = 900, the middle of the
\* second period of 600 ms and a quarter into the third period of 400 ms, it
\* is at its peak gamma(255) = 255 in this build and at gamma(127) = 36 in the
\* earlier one.
C32_Witness ==
  /\ pc = "run" /\ twin.pc = "run" /\ lightStateCache[0]
  /\ cvsCache[54] = 2 /\ cvsCache[50] = 255
  /\ now = 900 /\ twin.now = 900
  /\ duty[0] = 255 /\ twin.duty[0] = 36
====
